---------------------------- MODULE Spec2Model ----------------------------
(***************************************************************************)
(* Model of the legacy .doc extractor of go-word-extractor: the piece      *)
(* table built by writePieces, the piece mutators used by the FKP passes   *)
(* and by the header normalizer, the slicer getTextRangeByCP, the region   *)
(* slicer buildDocument and the text cleaner cleanText.                    *)
(*                                                                         *)
(* Text is a sequence of code points (naturals).  A Go panic (index or     *)
(* slice out of range, negative strings.Repeat count) ends the extraction: *)
(* it is the state pc = "panic", from which nothing happens.               *)
(***************************************************************************)
EXTENDS Integers, Sequences, FiniteSets, Bags, TLC

VARIABLES
    pc,             \* position of the extraction (or of cleanText)
    pieces,         \* WordOleExtractor.pieces
    ops,            \* number of piece mutator calls made so far
    boundaries,     \* WordOleExtractor.boundaries
    plcHddCount,    \* normalizeHeaders: number of CPs in PlcfHdd (lcbPlcfhdd / 4)
    story,          \* normalizeHeaders: loop index i
    hddStart,       \* normalizeHeaders: local variable start
    taggedHeaders,  \* WordOleExtractor.taggedHeaders
    doc,            \* the Document built by buildDocument
    input,          \* cleanText: the argument
    text,           \* cleanText: local variable text
    stream,         \* the WordDocument stream read by readStream
    fkp,            \* the index a pass has read last, and what came of it
    opts,           \* the options a getter of the Document was called with
    cli,            \* main.go: run's arguments, loop index, goroutines and result
    sprms,          \* processSprms: the grpprl, the cursor and the handler calls made
    runs,           \* the runs of an FKP page, the loop index and lastDeletionEnd
    plcPcd,         \* the piece table as stored: its declared size and its 16-bit words
    bkmk,           \* writeBookmarks: the name table, the two CP tables, the cursor and the map
    docx            \* the docx extractor: context, pieces, piecesStack and the open elements of the input

vars == <<pc, pieces, ops, boundaries, plcHddCount, story, hddStart,
          taggedHeaders, doc, input, text, stream, fkp, opts, cli, sprms, runs, plcPcd, bkmk, docx>>

----------------------------------------------------------------------------
(* Bounds of the model *)

MaxPieces == 2      \* piece descriptors in the piece table
MaxCp == 2          \* largest CP boundary value in the piece table
MaxOps == 2         \* piece mutator calls in one extraction
MaxCleanLen == 2    \* code points in a string handed to cleanText
MaxFieldLen == 7    \* code points in a string with field markers
MaxSlack == 2       \* bytes of capacity behind the stream in its buffer
TableLen == 16      \* bytes in the table stream
BufferPages == 2    \* 512-byte pages in the WordDocument stream
MaxSourceLen == 4   \* bytes in a source handed to WordExtractor.Extract
MaxTextLen == 2     \* code points in the text the fields of a Document are cut from
MaxArgs == 3        \* arguments on the command line
MaxGrpprl == 5      \* bytes in a grpprl handed to processSprms
MaxCcp == 2         \* largest region length (Ccp*) of the FIB
MaxHdd == 13        \* largest number of CPs in PlcfHdd
MaxStoryLen == 2    \* largest distance between two CPs of PlcfHdd

----------------------------------------------------------------------------
(* Go arithmetic and slices *)

\* Go's integer division truncates toward zero
TruncDiv(a, b) == IF a >= 0 THEN a \div b ELSE -((-a) \div b)

Min(a, b) == IF a < b THEN a ELSE b

Repeat(ch, n) == [i \in 1..n |-> ch]

\* runes[lo:hi] for 0 <= lo <= hi <= len(runes)
Slice(runes, lo, hi) == SubSeq(runes, lo + 1, hi)

\* runes[:n] when len(runes) < n <= cap(runes): the spare capacity of the
\* []rune conversion is zeroed memory
SliceToCap(runes, n) == [i \in 1..n |-> IF i <= Len(runes) THEN runes[i] ELSE 0]

RECURSIVE Flatten(_)
Flatten(ss) == IF ss = <<>> THEN <<>> ELSE Head(ss) \o Flatten(Tail(ss))

----------------------------------------------------------------------------
(* filters.go: decoding *)

binaryToUnicodeTable ==
    (130 :> 8218) @@ (131 :> 402) @@ (132 :> 8222) @@ (133 :> 8230) @@
    (134 :> 8224) @@ (135 :> 8225) @@ (136 :> 710) @@ (137 :> 8240) @@
    (138 :> 352) @@ (139 :> 8249) @@ (140 :> 338) @@ (142 :> 381) @@
    (145 :> 8216) @@ (146 :> 8217) @@ (147 :> 8220) @@ (148 :> 8221) @@
    (149 :> 8226) @@ (150 :> 8211) @@ (151 :> 8212) @@ (152 :> 732) @@
    (153 :> 8482) @@ (154 :> 353) @@ (155 :> 8250) @@ (156 :> 339) @@
    (158 :> 382) @@ (159 :> 376)

\* one rune per input rune
binaryToUnicode(t) ==
    [i \in 1..Len(t) |->
        IF t[i] \in DOMAIN binaryToUnicodeTable THEN binaryToUnicodeTable[t[i]]
        ELSE t[i]]

IsHighSurrogate(u) == u >= 55296 /\ u < 56320
IsLowSurrogate(u) == u >= 56320 /\ u < 57344

\* unicode/utf16.Decode: a valid surrogate pair is one rune, a lone surrogate
\* is U+FFFD
RECURSIVE utf16Decode(_)
utf16Decode(u) ==
    IF u = <<>> THEN <<>>
    ELSE IF Len(u) >= 2 /\ IsHighSurrogate(u[1]) /\ IsLowSurrogate(u[2])
         THEN <<65536 + (u[1] - 55296) * 1024 + (u[2] - 56320)>>
                  \o utf16Decode(SubSeq(u, 3, Len(u)))
    ELSE IF IsHighSurrogate(u[1]) \/ IsLowSurrogate(u[1])
         THEN <<65533>> \o utf16Decode(Tail(u))
    ELSE <<u[1]>> \o utf16Decode(Tail(u))

\* little-endian 16-bit units of an even-length buffer, decoded as UTF-16
bufferToUCS2String(buf) ==
    utf16Decode([i \in 1..(Len(buf) \div 2) |-> buf[2 * i - 1] + 256 * buf[2 * i]])

----------------------------------------------------------------------------
(* Inputs: the WordDocument stream and the piece descriptors of the table  *)
(* stream                                                                  *)

\* "A", 0x93 (a Windows-1252 quote), "C", "D"
StreamText == <<65, 147, 67, 68>>
\* 3D D8 41 DC: as UCS-2 the surrogate pair D83D DC41
StreamSurrogates == <<61, 216, 65, 220>>

Streams == {StreamText, StreamSurrogates}

\* the file positions of a run: from the start of the stream to its end
FilePositions == 0..Len(StreamText)

\* the CPs of a range: up to one past the last CP a piece table can declare
CpPositions == 0..(MaxCp + 1)

CompressedBit == 1073741824

\* fc values of piece descriptors: UCS-2 at byte 0 and 2, single-byte at
\* byte 0
FcChoices == {0, 2, CompressedBit}

----------------------------------------------------------------------------
(* writePieces *)

Panicked == [ok |-> FALSE, pieces |-> <<>>]

\* the body of the loop for a piece given the running startCp and startStream:
\* the piece, or ok = FALSE when buffer[a:b] is out of range.  lEnd - lStart
\* is a uint32: with lEnd < lStart it wraps to 2^32 - d, and the upper slice
\* bound startFilePos + uint32(size) is then below startFilePos or beyond the
\* buffer, so the slice panics.
MakePieceAt(buffer, fc, lStart, lEnd, cpBase, startStream) ==
    LET unicode == (fc \div CompressedBit) % 2 = 0
        startFilePos == IF unicode THEN fc ELSE (fc - CompressedBit) \div 2
        wraps == lEnd < lStart
        totLength == IF wraps THEN 0 ELSE lEnd - lStart
        bpc == IF unicode THEN 2 ELSE 1
        size == bpc * totLength
        hi == startFilePos + size
        textBuffer == SubSeq(buffer, startFilePos + 1, hi)
        txt == IF unicode THEN bufferToUCS2String(textBuffer)
               ELSE binaryToUnicode(textBuffer)
        length == Len(txt)
    IN  IF wraps \/ hi > Len(buffer)
        THEN [ok |-> FALSE, piece |-> <<>>]
        ELSE [ok |-> TRUE,
              piece |-> [StartCp |-> cpBase,
                         StartStream |-> startStream,
                         TotLength |-> totLength,
                         StartFilePos |-> startFilePos,
                         Unicode |-> unicode,
                         Bpc |-> bpc,
                         Size |-> size,
                         Text |-> txt,
                         Length |-> length,
                         EndCp |-> cpBase + length,
                         EndStream |-> startStream + size,
                         EndFilePos |-> startFilePos + size]]

\* mutant: StartCp taken from the CP boundary of the table, not from the
\* running startCp
MakePieceCpFromTable(buffer, fc, lStart, lEnd, startCp, startStream) ==
    MakePieceAt(buffer, fc, lStart, lEnd, lStart, startStream)

MakePiece(buffer, fc, lStart, lEnd, startCp, startStream) ==
    MakePieceAt(buffer, fc, lStart, lEnd, startCp, startStream)

RECURSIVE WritePiecesFrom(_, _, _, _, _)
WritePiecesFrom(buffer, fcs, cps, x, acc) ==
    IF x > Len(fcs) THEN [ok |-> TRUE, pieces |-> acc]
    ELSE LET startCp == IF acc = <<>> THEN 0 ELSE acc[Len(acc)].EndCp
             startStream == IF acc = <<>> THEN 0 ELSE acc[Len(acc)].EndStream
             r == MakePiece(buffer, fcs[x], cps[x], cps[x + 1], startCp, startStream)
         IN  IF r.ok THEN WritePiecesFrom(buffer, fcs, cps, x + 1, Append(acc, r.piece))
             ELSE Panicked

\* fcs: the fc of each descriptor; cps: the pieces + 1 CP boundaries
writePieces(buffer, fcs, cps) == WritePiecesFrom(buffer, fcs, cps, 1, <<>>)

----------------------------------------------------------------------------
(* Piece lookup and the slicer *)

\* 1-based index of the piece; 0 is Go's -1 (no pieces)
RECURSIVE IndexByCPFrom(_, _, _)
IndexByCPFrom(ps, position, i) ==
    IF i > Len(ps) THEN Len(ps)
    ELSE IF position <= ps[i].EndCp THEN i
    ELSE IndexByCPFrom(ps, position, i + 1)

getPieceIndexByCP(ps, position) == IndexByCPFrom(ps, position, 1)

RECURSIVE IndexByFilePosFrom(_, _, _)
IndexByFilePosFrom(ps, position, i) ==
    IF i > Len(ps) THEN Len(ps)
    ELSE IF position <= ps[i].EndFilePos THEN i
    ELSE IndexByFilePosFrom(ps, position, i + 1)

getPieceIndexByFilePos(ps, position) == IndexByFilePosFrom(ps, position, 1)

\* the contribution of piece i to getTextRangeByCP(start, end):
\* ok = FALSE when runes[xstart:xend] panics
SlicePartTo(ps, i, startPiece, endPiece, start, end, last) ==
    LET piece == ps[i]
        runes == piece.Text
        xstart0 == IF i = startPiece THEN start - piece.StartCp ELSE 0
        xend0 == IF i = endPiece THEN last - piece.StartCp ELSE piece.Length
        xend == IF xend0 > Len(runes) THEN Len(runes) ELSE xend0
        xstart == IF xstart0 < 0 THEN 0 ELSE xstart0
    IN  IF xstart < Len(runes)
        THEN IF xend < xstart THEN [ok |-> FALSE, text |-> <<>>]
             ELSE [ok |-> TRUE, text |-> Slice(runes, xstart, xend)]
        ELSE [ok |-> TRUE, text |-> <<>>]

\* mutant: the end CP taken as inclusive
SlicePartInclusive(ps, i, startPiece, endPiece, start, end) ==
    SlicePartTo(ps, i, startPiece, endPiece, start, end, end + 1)

SlicePart(ps, i, startPiece, endPiece, start, end) ==
    SlicePartTo(ps, i, startPiece, endPiece, start, end, end)

RECURSIVE SliceFrom(_, _, _, _, _, _)
SliceFrom(ps, i, startPiece, endPiece, start, end) ==
    IF i > endPiece THEN [ok |-> TRUE, text |-> <<>>]
    ELSE IF i < 1 THEN [ok |-> FALSE, text |-> <<>>]
    ELSE LET part == SlicePart(ps, i, startPiece, endPiece, start, end)
             rest == SliceFrom(ps, i + 1, startPiece, endPiece, start, end)
         IN  IF part.ok /\ rest.ok
             THEN [ok |-> TRUE, text |-> part.text \o rest.text]
             ELSE [ok |-> FALSE, text |-> <<>>]

\* [ok, text]: ok = FALSE when the call panics
getTextRangeByCP(ps, start, end) ==
    LET startPiece == getPieceIndexByCP(ps, start)
        endPiece == getPieceIndexByCP(ps, end)
    IN  SliceFrom(ps, startPiece, startPiece, endPiece, start, end)

----------------------------------------------------------------------------
(* Piece mutators *)

\* pad: whether a slice runes[:n] with n > len(runes) lies within the
\* capacity of the rune buffer (zero padding) or panics
FillResult(piece, runes, startIdx, endIdx, count, character, pad) ==
    IF (startIdx > Len(runes) /\ ~pad) \/ count < 0 \/ endIdx < 0
    THEN [ok |-> FALSE, piece |-> piece]
    ELSE [ok |-> TRUE,
          piece |-> [piece EXCEPT !.Text =
                        (IF startIdx > 0 THEN SliceToCap(runes, startIdx) ELSE <<>>)
                        \o Repeat(character, count)
                        \o (IF endIdx < Len(runes)
                            THEN Slice(runes, endIdx, Len(runes)) ELSE <<>>)]]

fillPieceRange(piece, start, end, character, pad) ==
    LET pieceStart == piece.StartCp
        pieceEnd == pieceStart + piece.Length
        s == IF start < pieceStart THEN pieceStart ELSE start
        e == IF end > pieceEnd THEN pieceEnd ELSE end
    IN  FillResult(piece, piece.Text, s - pieceStart, e - pieceStart, e - s,
                   character, pad)

fillPieceRangeByFilePos(piece, start, end, character, pad) ==
    LET pieceStart == piece.StartFilePos
        pieceEnd == pieceStart + piece.Size
        s == IF start < pieceStart THEN pieceStart ELSE start
        e == IF end > pieceEnd THEN pieceEnd ELSE end
    IN  FillResult(piece, piece.Text,
                   TruncDiv(s - pieceStart, piece.Bpc),
                   TruncDiv(e - pieceStart, piece.Bpc),
                   TruncDiv(e - s, piece.Bpc),
                   character, pad)

RECURSIVE FillFrom(_, _, _, _, _, _, _, _)
FillFrom(ps, i, endPiece, start, end, character, pad, byFilePos) ==
    IF i > endPiece THEN [ok |-> TRUE, pieces |-> ps]
    ELSE IF i < 1 THEN Panicked
    ELSE LET r == IF byFilePos
                  THEN fillPieceRangeByFilePos(ps[i], start, end, character, pad)
                  ELSE fillPieceRange(ps[i], start, end, character, pad)
         IN  IF r.ok
             THEN FillFrom([ps EXCEPT ![i] = r.piece], i + 1, endPiece, start, end,
                           character, pad, byFilePos)
             ELSE Panicked

replaceSelectedRange(ps, start, end, character, pad) ==
    FillFrom(ps, getPieceIndexByCP(ps, start), getPieceIndexByCP(ps, end),
             start, end, character, pad, FALSE)

replaceSelectedRangeByFilePos(ps, start, end, character, pad) ==
    FillFrom(ps, getPieceIndexByFilePos(ps, start), getPieceIndexByFilePos(ps, end),
             start, end, character, pad, TRUE)

markDeletedRange(ps, start, end, pad) ==
    replaceSelectedRangeByFilePos(ps, start, end, 0, pad)

----------------------------------------------------------------------------
(* The extraction up to the header normalizer's replacement *)

EmptyDoc == [Body |-> <<>>, Footnotes |-> <<>>, Headers |-> <<>>, Footers |-> <<>>,
             Annotations |-> <<>>, Endnotes |-> <<>>, Textboxes |-> <<>>,
             HeaderTextboxes |-> <<>>]

\* no index read yet
NoPass == [pass |-> "none", fc |-> 0, lcb |-> 0, page |-> 0, grpprlEnd |-> 0,
           sprm |-> FALSE, outcome |-> "ok", entries |-> 0, overread |-> FALSE,
           before |-> <<>>]

\* a nil *Options
NilOptions == [nil |-> TRUE, FilterUnicode |-> FALSE, IncludeFooters |-> FALSE,
               IncludeHeadersAndFooters |-> FALSE, IncludeBody |-> FALSE]

\* run was not called
NoRun == [args |-> <<>>, i |-> 0, wg |-> 0, adding |-> "none",
          running |-> EmptyBag, dying |-> FALSE, launched |-> 0, finished |-> 0,
          logged |-> 0, processed |-> 0, result |-> "none"]

\* processSprms was not called
NoSprms == [buffer |-> <<>>, handler |-> "none", offset |-> 0, calls |-> <<>>]

NoRuns == [handler |-> "none", rgfc |-> <<>>, grpprl |-> <<>>, j |-> 0,
           lastDeletionEnd |-> 0, before |-> <<>>]

NoPlcPcd == [size |-> 0, table |-> <<>>]

NoBkmk == [sttbfBkmk |-> <<>>, plcfBkf |-> <<>>, plcfBkl |-> <<>>,
           offset |-> 0, index |-> 0, bookmarks |-> {}]

\* the docx extractor before a part is parsed
NoDocx == [context |-> <<>>, pieces |-> <<>>, piecesStack |-> <<>>,
           open |-> <<>>, events |-> 0]

NoBoundaries == [CcpText |-> 0, CcpFtn |-> 0, CcpHdd |-> 0, CcpAtn |-> 0,
                 CcpEdn |-> 0, CcpTxbx |-> 0, CcpHdrTxbx |-> 0]

Init ==
    /\ pc = "start"
    /\ pieces = <<>>
    /\ ops = 0
    /\ boundaries = NoBoundaries
    /\ plcHddCount = 0
    /\ story = 0
    /\ hddStart = 0
    /\ taggedHeaders = <<>>
    /\ doc = EmptyDoc
    /\ input = <<>>
    /\ text = <<>>
    /\ stream = <<>>
    /\ fkp = NoPass
    /\ opts = NilOptions
    /\ cli = NoRun
    /\ sprms = NoSprms
    /\ runs = NoRuns
    /\ plcPcd = NoPlcPcd
    /\ bkmk = NoBkmk
    /\ docx = NoDocx

fib == <<boundaries, plcHddCount, story, hddStart, taggedHeaders, doc, input, text>>

rest == <<fib, stream, fkp, opts, cli, sprms, runs, plcPcd, bkmk, docx>>

\* extractWordDocument: writePieces on the streams of the file.  The buffer
\* that readStream returns is a slice of a bytes.Buffer: a slice expression
\* on it is checked against its capacity, so buffer[a:b] with b beyond the
\* stream reads the zero bytes behind it when the capacity allows, and
\* panics when not
WritePieces ==
    /\ pc = "start"
    /\ \E m \in Streams, slack \in {0, MaxSlack}, n \in 0..MaxPieces :
         \E fcs \in [1..n -> FcChoices], cps \in [1..(n + 1) -> 0..MaxCp] :
            LET buffer == m \o [i \in 1..slack |-> 0]
                r == writePieces(buffer, fcs, cps)
            IN  /\ stream' = m
                /\ IF r.ok THEN pc' = "chpx" /\ pieces' = r.pieces
                   ELSE pc' = "panic" /\ pieces' = pieces
    /\ UNCHANGED <<ops, fib, fkp, opts, cli, sprms, runs, plcPcd, bkmk, docx>>

\* a mutator call ends in new pieces or in a panic
Mutate(r) ==
    /\ ops < MaxOps
    /\ ops' = ops + 1
    /\ IF r.ok THEN pieces' = r.pieces /\ pc' = pc
       ELSE pc' = "panic" /\ pieces' = pieces

\* writeCharacterProperties: the callback marks the run [rgfc, rgfcNext) deleted
MarkDeleted ==
    /\ pc = "chpx"
    /\ \E rgfc \in FilePositions, rgfcNext \in FilePositions, pad \in BOOLEAN :
         Mutate(markDeletedRange(pieces, rgfc, rgfcNext, pad))
    /\ UNCHANGED rest

CharacterPropertiesDone ==
    /\ pc = "chpx"
    /\ pc' = "papx"
    /\ UNCHANGED <<pieces, ops, rest>>

\* writeParagraphProperties: the callback fills the run with newlines
ParagraphFill ==
    /\ pc = "papx"
    /\ \E rgfc \in FilePositions, rgfcNext \in FilePositions, pad \in BOOLEAN :
         Mutate(replaceSelectedRangeByFilePos(pieces, rgfc, rgfcNext, 10, pad))
    /\ UNCHANGED rest

ParagraphPropertiesDone ==
    /\ pc = "papx"
    /\ pc' = "hdd"
    /\ UNCHANGED <<pieces, ops, rest>>

\* normalizeHeaders: the NUL replacement of a CP range
HeaderReplace ==
    /\ pc = "hdd"
    /\ \E start \in CpPositions, end \in CpPositions, pad \in BOOLEAN :
         Mutate(replaceSelectedRange(pieces, start, end, 0, pad))
    /\ UNCHANGED rest

Next ==
    \/ WritePieces
    \/ MarkDeleted
    \/ CharacterPropertiesDone
    \/ ParagraphFill
    \/ ParagraphPropertiesDone
    \/ HeaderReplace

Spec == Init /\ [][Next]_vars

----------------------------------------------------------------------------
(* filters.go: cleanText *)

replaceTable ==
    (2 :> <<0>>) @@ (5 :> <<0>>) @@ (7 :> <<9>>) @@ (8 :> <<0>>) @@
    (10 :> <<10>>) @@ (11 :> <<10>>) @@ (12 :> <<10>>) @@ (13 :> <<10>>) @@
    (30 :> <<8209>>)

\* the character class of replaceRegex
replaceRegexClass == {2, 5, 7, 8, 10, 11, 12, 13, 31}

\* the first statement: every match of replaceRegex is replaced by its
\* replaceTable entry, or by "" when the table has none
replaceControls(t) ==
    Flatten([i \in 1..Len(t) |->
                IF t[i] \in replaceRegexClass
                THEN IF t[i] \in DOMAIN replaceTable THEN replaceTable[t[i]] ELSE <<>>
                ELSE <<t[i]>>])

FieldMarkers == {19, 20, 21}

\* the end of the longest run of non-marker characters starting at i
RECURSIVE SkipPlain(_, _)
SkipPlain(t, i) ==
    IF i <= Len(t) /\ t[i] \notin FieldMarkers THEN SkipPlain(t, i + 1) ELSE i

\* fieldRegex matched at position i: [found, next, group]; next is the
\* position after the match, group the submatch
fieldMatchAt(t, i) ==
    LET none == [found |-> FALSE, next |-> i, group |-> <<>>]
        j == SkipPlain(t, i + 1)
    IN  IF i > Len(t) \/ t[i] # 19 \/ j > Len(t) THEN none
        ELSE IF t[j] = 21
             THEN [found |-> TRUE, next |-> j + 1, group |-> <<>>]
        ELSE IF t[j] = 20
             THEN LET k == SkipPlain(t, j + 1)
                  IN  IF k <= Len(t) /\ t[k] = 21
                      THEN [found |-> TRUE, next |-> k + 1,
                            group |-> SubSeq(t, j + 1, k - 1)]
                      ELSE none
        ELSE none

\* one fieldRegex.ReplaceAllStringFunc pass from position i: [called, text]
RECURSIVE FieldPassFrom(_, _)
FieldPassFrom(t, i) ==
    IF i > Len(t) THEN [called |-> FALSE, text |-> <<>>]
    ELSE LET m == fieldMatchAt(t, i)
         IN  IF m.found
             THEN [called |-> TRUE, text |-> m.group \o FieldPassFrom(t, m.next).text]
             ELSE LET r == FieldPassFrom(t, i + 1)
                  IN  [called |-> r.called, text |-> <<t[i]>> \o r.text]

\* a single pass, without the loop
collapseFieldsOnce(t) == FieldPassFrom(t, 1).text

\* the loop: passes are repeated until one replaces nothing
RECURSIVE collapseFields(_)
collapseFields(t) ==
    LET r == FieldPassFrom(t, 1)
    IN  IF r.called THEN collapseFields(r.text) ELSE r.text

\* the drop with NUL taken for no control character
dropControlsKeepNul(t) == SelectSeq(t, LAMBDA r : r = 0 \/ r > 7)

\* the strings.Map that drops code points <= 0x07
dropControls(t) == SelectSeq(t, LAMBDA r : r > 7)

cleanText(t) == dropControls(collapseFields(replaceControls(t)))

----------------------------------------------------------------------------
(* cleanText on its own, statement by statement *)

CleanAlphabet == {0, 2, 5, 7, 8, 10, 11, 12, 13, 19, 20, 21, 30, 31, 65}

Strings(alphabet, n) == UNION {[1..m -> alphabet] : m \in 0..n}

InitClean ==
    /\ pc = "clean"
    /\ input \in Strings(CleanAlphabet, MaxCleanLen)
    /\ text = input
    /\ stream = <<>>
    /\ fkp = NoPass
    /\ opts = NilOptions
    /\ cli = NoRun
    /\ sprms = NoSprms
    /\ runs = NoRuns
    /\ plcPcd = NoPlcPcd
    /\ bkmk = NoBkmk
    /\ docx = NoDocx
    /\ pieces = <<>>
    /\ ops = 0
    /\ boundaries = NoBoundaries
    /\ plcHddCount = 0
    /\ story = 0
    /\ hddStart = 0
    /\ taggedHeaders = <<>>
    /\ doc = EmptyDoc

cleanFrame == <<pieces, ops, boundaries, plcHddCount, story, hddStart,
                taggedHeaders, doc, input, stream, fkp, opts, cli, sprms, runs, plcPcd, bkmk, docx>>

CleanReplace ==
    /\ pc = "clean"
    /\ text' = replaceControls(text)
    /\ pc' = "fields"
    /\ UNCHANGED cleanFrame

CleanFields ==
    /\ pc = "fields"
    /\ text' = collapseFields(text)
    /\ pc' = "drop"
    /\ UNCHANGED cleanFrame

CleanDrop ==
    /\ pc = "drop"
    /\ text' = dropControls(text)
    /\ pc' = "cleaned"
    /\ UNCHANGED cleanFrame

NextClean == CleanReplace \/ CleanFields \/ CleanDrop

SpecClean == InitClean /\ [][NextClean]_vars

\* cleanText on strings of field markers and letters; the letter at position
\* i is 64 + i, so that the result shows which letters were kept
FieldString(shape) ==
    [i \in DOMAIN shape |-> IF shape[i] = 0 THEN 64 + i ELSE shape[i]]

InitField ==
    /\ pc = "clean"
    /\ \E m \in 0..MaxFieldLen : \E shape \in [1..m -> FieldMarkers \cup {0}] :
          input = FieldString(shape)
    /\ text = input
    /\ stream = <<>>
    /\ fkp = NoPass
    /\ opts = NilOptions
    /\ cli = NoRun
    /\ sprms = NoSprms
    /\ runs = NoRuns
    /\ plcPcd = NoPlcPcd
    /\ bkmk = NoBkmk
    /\ docx = NoDocx
    /\ pieces = <<>>
    /\ ops = 0
    /\ boundaries = NoBoundaries
    /\ plcHddCount = 0
    /\ story = 0
    /\ hddStart = 0
    /\ taggedHeaders = <<>>
    /\ doc = EmptyDoc

SpecField == InitField /\ [][NextClean]_vars

----------------------------------------------------------------------------
(* normalizeHeaders and buildDocument *)

containsNonWhitespaceIn(t, blank) == \E i \in 1..Len(t) : t[i] \notin blank

\* mutant: only CR and LF count as whitespace
containsNonWhitespaceCrLf(t) == containsNonWhitespaceIn(t, {13, 10})

containsNonWhitespace(t) == containsNonWhitespaceIn(t, {13, 10} \cup (2..8))

storyTypeFrom(s, first) ==
    IF s < first - 3 THEN "footnoteSeparators"
    ELSE IF s < first THEN "endSeparators"
    ELSE IF s % 6 \in {0, 1, 4} THEN "headers"
    ELSE "footers"

\* mutant: the separator stories are not told apart from the headers
storyTypeNoSeparators(s) == storyTypeFrom(s, 0)

\* the switch on story (0-based)
storyType(s) == storyTypeFrom(s, 6)

\* the texts of the tagged headers of one type, in order
TaggedTexts(th, type) ==
    Flatten([i \in 1..Len(th) |-> IF th[i].Type = type THEN th[i].Text ELSE <<>>])

\* hddStep: what the cursor advances by over the headers region
buildDocumentStepping(ps, b, th, hddStep) ==
    LET body == getTextRangeByCP(ps, 0, b.CcpText)
        s1 == b.CcpText
        ftn == IF b.CcpFtn > 0 THEN getTextRangeByCP(ps, s1, s1 + b.CcpFtn - 1)
               ELSE [ok |-> TRUE, text |-> <<>>]
        s2 == IF b.CcpFtn > 0 THEN s1 + b.CcpFtn ELSE s1
        s3 == IF b.CcpHdd > 0 THEN s2 + hddStep ELSE s2
        atn == IF b.CcpAtn > 0 THEN getTextRangeByCP(ps, s3, s3 + b.CcpAtn - 1)
               ELSE [ok |-> TRUE, text |-> <<>>]
        s4 == IF b.CcpAtn > 0 THEN s3 + b.CcpAtn ELSE s3
        edn == IF b.CcpEdn > 0 THEN getTextRangeByCP(ps, s4, s4 + b.CcpEdn - 1)
               ELSE [ok |-> TRUE, text |-> <<>>]
        s5 == IF b.CcpEdn > 0 THEN s4 + b.CcpEdn ELSE s4
        txbx == IF b.CcpTxbx > 0 THEN getTextRangeByCP(ps, s5, s5 + b.CcpTxbx - 1)
                ELSE [ok |-> TRUE, text |-> <<>>]
        s6 == IF b.CcpTxbx > 0 THEN s5 + b.CcpTxbx ELSE s5
        hdrTxbx == IF b.CcpHdrTxbx > 0
                   THEN getTextRangeByCP(ps, s6, s6 + b.CcpHdrTxbx - 1)
                   ELSE [ok |-> TRUE, text |-> <<>>]
    IN  [ok |-> body.ok /\ ftn.ok /\ atn.ok /\ edn.ok /\ txbx.ok /\ hdrTxbx.ok,
         doc |-> [Body |-> cleanText(body.text),
                  Footnotes |-> cleanText(ftn.text),
                  Headers |-> IF b.CcpHdd > 0
                              THEN cleanText(TaggedTexts(th, "headers")) ELSE <<>>,
                  Footers |-> IF b.CcpHdd > 0
                              THEN cleanText(TaggedTexts(th, "footers")) ELSE <<>>,
                  Annotations |-> cleanText(atn.text),
                  Endnotes |-> cleanText(edn.text),
                  Textboxes |-> cleanText(txbx.text),
                  HeaderTextboxes |-> cleanText(hdrTxbx.text)]]

\* mutant: the cursor is not advanced over the headers region
buildDocumentSkippingHdd(ps, b, th) == buildDocumentStepping(ps, b, th, 0)

buildDocument(ps, b, th) == buildDocumentStepping(ps, b, th, b.CcpHdd)

\* The WordDocument stream and the piece tables of the documents handed to
\* the header normalizer and the region slicer: one single-byte piece of 16
\* CPs, and a single-byte, a UCS-2 and a single-byte piece of 3, 2 and 8 CPs
DocStream == <<65, 13, 7, 13, 66, 67, 68, 69, 13, 70, 13, 71, 72, 13, 73, 74>>

SinglePieceTable == writePieces(DocStream, <<CompressedBit>>, <<0, 16>>).pieces

MixedPieceTable ==
    writePieces(DocStream, <<CompressedBit, 4, CompressedBit + 16>>,
                <<0, 3, 5, 13>>).pieces

InitDocument ==
    /\ pc = "normalize"
    /\ ops = 0
    /\ story = 0
    /\ hddStart = 0
    /\ taggedHeaders = <<>>
    /\ doc = EmptyDoc
    /\ input = <<>>
    /\ text = <<>>
    /\ stream = DocStream
    /\ fkp = NoPass
    /\ opts = NilOptions
    /\ cli = NoRun
    /\ sprms = NoSprms
    /\ runs = NoRuns
    /\ plcPcd = NoPlcPcd
    /\ bkmk = NoBkmk
    /\ docx = NoDocx

\* region slicing: every region length varies, at most one header story
InitDoc ==
    /\ InitDocument
    /\ pieces = MixedPieceTable
    /\ boundaries \in [DOMAIN NoBoundaries -> 0..MaxCcp]
    /\ plcHddCount \in {0, 2}

\* header stories: a headers region of 4 CPs after a body and footnotes of at
\* most 1 CP each; PlcfHdd is absent, too short or holds MaxHdd CPs
InitHdr ==
    /\ InitDocument
    /\ pieces \in {SinglePieceTable, MixedPieceTable}
    /\ \E t \in 0..1, f \in 0..1, h \in {0, 4} :
          boundaries = [NoBoundaries EXCEPT !.CcpText = t, !.CcpFtn = f, !.CcpHdd = h]
    /\ plcHddCount \in {0, 1, 2, MaxHdd}

docFrame == <<ops, boundaries, plcHddCount, input, text, stream, fkp, opts, cli, sprms, runs, plcPcd, bkmk, docx>>

\* normalizeHeaders up to the loop: nothing to do when lcbPlcfhdd < 8, that is
\* with fewer than 2 CPs; first is plcHdd[0]
NormalizeHeadersStart ==
    /\ pc = "normalize"
    /\ \E first \in 0..1 :
          IF plcHddCount < 2
          THEN pc' = "build" /\ UNCHANGED <<story, hddStart>>
          ELSE /\ pc' = "story"
               /\ story' = 1
               /\ hddStart' = boundaries.CcpText + boundaries.CcpFtn + first
    /\ UNCHANGED <<pieces, taggedHeaders, doc, docFrame>>

\* one iteration of the loop; the CPs of PlcfHdd do not decrease: plcHdd[i]
\* lies len CPs after the start of the story
NormalizeStory ==
    /\ pc = "story"
    /\ story < plcHddCount
    /\ \E len \in 0..MaxStoryLen, pad \in BOOLEAN :
          LET offset == boundaries.CcpText + boundaries.CcpFtn
              limit == offset + boundaries.CcpHdd
              end == IF hddStart + len > limit THEN limit ELSE hddStart + len
              t == getTextRangeByCP(pieces, hddStart, end)
              header == [Type |-> storyType(story - 1), Text |-> t.text]
              r == IF ~containsNonWhitespace(t.text)
                   THEN replaceSelectedRange(pieces, hddStart, end, 0, pad)
                   ELSE replaceSelectedRange(pieces, end - 1, end, 0, pad)
          IN  IF t.ok /\ r.ok
              THEN /\ taggedHeaders' = Append(taggedHeaders, header)
                   /\ pieces' = r.pieces
                   /\ hddStart' = end
                   /\ story' = story + 1
                   /\ pc' = pc
              ELSE /\ pc' = "panic"
                   /\ UNCHANGED <<taggedHeaders, pieces, hddStart, story>>
    /\ UNCHANGED <<doc, docFrame>>

NormalizeHeadersDone ==
    /\ pc = "story"
    /\ story >= plcHddCount
    /\ pc' = "build"
    /\ UNCHANGED <<pieces, story, hddStart, taggedHeaders, doc, docFrame>>

BuildDocument ==
    /\ pc = "build"
    /\ LET r == buildDocument(pieces, boundaries, taggedHeaders)
       IN  IF r.ok THEN doc' = r.doc /\ pc' = "done"
           ELSE doc' = doc /\ pc' = "panic"
    /\ UNCHANGED <<pieces, story, hddStart, taggedHeaders, docFrame>>

NextDoc ==
    \/ NormalizeHeadersStart
    \/ NormalizeStory
    \/ NormalizeHeadersDone
    \/ BuildDocument

SpecDoc == InitDoc /\ [][NextDoc]_vars

SpecHdr == InitHdr /\ [][NextDoc]_vars

----------------------------------------------------------------------------
(* The extraction from the piece table to the Document *)

\* piece tables over StreamText: one single-byte piece of 4 CPs, and a
\* single-byte piece of 2 CPs followed by a UCS-2 piece of 1 CP
DelTables ==
    {writePieces(StreamText, <<CompressedBit>>, <<0, 4>>).pieces,
     writePieces(StreamText, <<CompressedBit, 2>>, <<0, 2, 3>>).pieces}

\* "Hello cruel world" as one single-byte piece
HelloStream == <<72, 101, 108, 108, 111, 32, 99, 114, 117, 101, 108, 32,
                 119, 111, 114, 108, 100>>

HelloTable ==
    writePieces(HelloStream, <<CompressedBit>>, <<0, Len(HelloStream)>>).pieces

\* the body covers 2 CPs or more, the headers region is empty or 1 CP
InitDel ==
    /\ pc = "chpx"
    /\ ops = 0
    /\ pieces \in DelTables
    /\ \E t \in 2..Len(StreamText), h \in 0..1 :
          boundaries = [NoBoundaries EXCEPT !.CcpText = t, !.CcpHdd = h]
    /\ plcHddCount \in {0, 2}
    /\ story = 0
    /\ hddStart = 0
    /\ taggedHeaders = <<>>
    /\ doc = EmptyDoc
    /\ input = <<>>
    /\ text = <<>>
    /\ stream = StreamText
    /\ fkp = NoPass
    /\ opts = NilOptions
    /\ cli = NoRun
    /\ sprms = NoSprms
    /\ runs = NoRuns
    /\ plcPcd = NoPlcPcd
    /\ bkmk = NoBkmk
    /\ docx = NoDocx

\* extractWordDocument: normalizeHeaders is called after the two FKP passes
NormalizeHeadersCall ==
    /\ pc = "hdd"
    /\ pc' = "normalize"
    /\ UNCHANGED <<pieces, ops, rest>>

NextDel ==
    \/ MarkDeleted
    \/ CharacterPropertiesDone
    \/ ParagraphFill
    \/ ParagraphPropertiesDone
    \/ NormalizeHeadersCall
    \/ NextDoc

SpecDel == InitDel /\ [][NextDel]_vars

----------------------------------------------------------------------------
(* The passes over the optional indexes of the table stream *)

FkpPageSize == 512

TwoPow29 == 536870912

\* (lcb - 4) / 8 in uint32: below 4 the difference wraps to 2^32 - (4 - lcb)
plcBteCount(lcb) ==
    IF lcb < 4 THEN TwoPow29 + ((lcb - 4) \div 8) ELSE (lcb - 4) \div 8

PassResult(outcome, entries, ps, overread) ==
    [outcome |-> outcome, entries |-> entries, pieces |-> ps, overread |-> overread]

\* What a pass reads: the index [fc, fc + lcb) of the table stream, the FKP
\* page its entries name, where the grpprl of the page's run ends in the
\* page, whether the grpprl holds the sprm the pass acts on, and the file
\* range [rgfc, rgfcNext) of the run.  slack: the buffers have capacity behind
\* their length; pad: as for the piece mutators.
PassInputs ==
    [fc : {0, TableLen - 4}, lcb : {0, 2, 4, 12}, page : {1, BufferPages},
     grpprlEnd : {FkpPageSize, FkpPageSize + 2}, sprm : BOOLEAN,
     run : {<<0, 2>>, <<1, 3>>}, pad : BOOLEAN, slack : BOOLEAN]

\* writeCharacterProperties for an index of at most one entry; tlen and mlen
\* are the lengths of the table stream and of the WordDocument stream
writeCharacterProperties(ps, tlen, mlen, in) ==
    IF in.lcb = 0 THEN PassResult("ok", 0, ps, FALSE)
    ELSE IF in.fc + in.lcb > tlen THEN PassResult("error", 0, ps, FALSE)
    \* the count has wrapped and Uint32(plcBteChpx[0:]) finds fewer than 4 bytes
    ELSE IF in.lcb < 4 THEN PassResult("panic", 0, ps, FALSE)
    ELSE IF plcBteCount(in.lcb) = 0 THEN PassResult("ok", 0, ps, FALSE)
    ELSE IF (in.page + 1) * FkpPageSize > mlen THEN PassResult("error", 0, ps, FALSE)
    ELSE IF in.grpprlEnd > FkpPageSize THEN PassResult("error", 1, ps, FALSE)
    ELSE IF in.sprm
         THEN LET r == markDeletedRange(ps, in.run[1], in.run[2], in.pad)
              IN  IF r.ok THEN PassResult("ok", 1, r.pieces, FALSE)
                  ELSE PassResult("panic", 1, ps, FALSE)
    ELSE PassResult("ok", 1, ps, FALSE)

\* writeParagraphProperties for an index of at most one entry: no length is
\* compared before a slice is taken, so a slice that ends behind its buffer
\* reads what lies there when the capacity allows, and panics when not
writeParagraphProperties(ps, tlen, mlen, in) ==
    LET beyond == \/ in.fc + in.lcb > tlen
                  \/ (in.page + 1) * FkpPageSize > mlen
                  \/ in.grpprlEnd > FkpPageSize
    IN  IF in.fc + in.lcb > tlen /\ ~in.slack THEN PassResult("panic", 0, ps, FALSE)
        \* the count has wrapped and plcBtePapx[dataOffset:] starts behind the slice
        ELSE IF in.lcb < 4 THEN PassResult("panic", 0, ps, FALSE)
        ELSE IF plcBteCount(in.lcb) = 0
             THEN PassResult("ok", 0, ps, in.fc + in.lcb > tlen)
        ELSE IF (in.page + 1) * FkpPageSize > mlen /\ ~in.slack
             THEN PassResult("panic", 0, ps, FALSE)
        ELSE IF in.grpprlEnd > FkpPageSize /\ ~in.slack
             THEN PassResult("panic", 1, ps, FALSE)
        ELSE IF in.sprm
             THEN LET r == replaceSelectedRangeByFilePos(ps, in.run[1], in.run[2],
                                                          10, in.pad)
                  IN  IF r.ok THEN PassResult("ok", 1, r.pieces, beyond)
                      ELSE PassResult("panic", 1, ps, beyond)
        ELSE PassResult("ok", 1, ps, beyond)

PassRecord(pass, in, r, before) ==
    [pass |-> pass, fc |-> in.fc, lcb |-> in.lcb, page |-> in.page,
     grpprlEnd |-> in.grpprlEnd, sprm |-> in.sprm, outcome |-> r.outcome,
     entries |-> r.entries, overread |-> r.overread, before |-> before]

\* where the extraction goes after a pass
AfterPass(outcome, next) ==
    IF outcome = "ok" THEN next ELSE outcome

InitFkp ==
    /\ pc = "bkmk"
    /\ pieces = <<>>
    /\ ops = 0
    /\ boundaries = [NoBoundaries EXCEPT !.CcpText = 3, !.CcpHdd = 1]
    /\ plcHddCount \in 0..2
    /\ story = 0
    /\ hddStart = 0
    /\ taggedHeaders = <<>>
    /\ doc = EmptyDoc
    /\ input = <<>>
    /\ text = <<>>
    /\ stream = <<>>
    /\ fkp = NoPass
    /\ opts = NilOptions
    /\ cli = NoRun
    /\ sprms = NoSprms
    /\ runs = NoRuns
    /\ plcPcd = NoPlcPcd
    /\ bkmk = NoBkmk
    /\ docx = NoDocx

\* writeBookmarks: nothing to do when lcbSttbfBkmk is 0; else the three
\* slices of the table stream are taken unchecked, a name table that is not
\* marked extended is an error, and the names are read
WriteBookmarks ==
    /\ pc = "bkmk"
    /\ \E lcb \in {0, 8}, fc \in {0, TableLen - 4}, extended \in BOOLEAN,
          slack \in BOOLEAN :
          LET beyond == fc + lcb > TableLen
              outcome == IF lcb = 0 THEN "ok"
                         ELSE IF beyond /\ ~slack THEN "panic"
                         ELSE IF ~extended THEN "error"
                         ELSE "ok"
          IN  /\ fkp' = [NoPass EXCEPT !.pass = "bkmk", !.fc = fc, !.lcb = lcb,
                                       !.outcome = outcome,
                                       !.entries = IF lcb = 0 \/ outcome # "ok"
                                                   THEN 0 ELSE 1,
                                       !.overread = (lcb # 0 /\ beyond /\ outcome = "ok")]
              /\ pc' = AfterPass(outcome, "pieces")
    /\ UNCHANGED <<pieces, ops, fib, stream, opts, cli, sprms, runs, plcPcd, bkmk, docx>>

\* writePieces on the piece table of the document
WritePiecesOfDocument ==
    /\ pc = "pieces"
    /\ pieces' \in DelTables
    /\ stream' = StreamText
    /\ pc' = "chpxpass"
    /\ UNCHANGED <<ops, fib, fkp, opts, cli, sprms, runs, plcPcd, bkmk, docx>>

CharacterPass ==
    /\ pc = "chpxpass"
    /\ \E in \in PassInputs :
          LET r == writeCharacterProperties(pieces, TableLen,
                                            BufferPages * FkpPageSize, in)
          IN  /\ fkp' = PassRecord("chpx", in, r, pieces)
              /\ pieces' = r.pieces
              /\ pc' = AfterPass(r.outcome, "papxpass")
    /\ UNCHANGED <<ops, fib, stream, opts, cli, sprms, runs, plcPcd, bkmk, docx>>

ParagraphPass ==
    /\ pc = "papxpass"
    /\ \E in \in PassInputs :
          LET r == writeParagraphProperties(pieces, TableLen,
                                            BufferPages * FkpPageSize, in)
          IN  /\ fkp' = PassRecord("papx", in, r, pieces)
              /\ pieces' = r.pieces
              /\ pc' = AfterPass(r.outcome, "normalize")
    /\ UNCHANGED <<ops, fib, stream, opts, cli, sprms, runs, plcPcd, bkmk, docx>>

NextFkp ==
    \/ WriteBookmarks
    \/ WritePiecesOfDocument
    \/ CharacterPass
    \/ ParagraphPass
    \/ NextDoc

SpecFkp == InitFkp /\ [][NextFkp]_vars

----------------------------------------------------------------------------
(* WordExtractor.Extract: the choice of the extractor *)

SniffSize == 512

\* the bytes the signatures are made of, and some others
SourceBytes == {0, 3, 4, 5, 6, 7, 8, 75, 80, 207, 208}

\* reader.Read(buffer) on a fresh buffer of 512 zero bytes
ReadBuffer(source) ==
    [i \in 1..SniffSize |-> IF i <= Len(source) THEN source[i] ELSE 0]

\* binary.BigEndian.Uint16(buffer[at:at+2])
BigEndianUint16(buffer, at) == buffer[at + 1] * 256 + buffer[at + 2]

\* the outcome of Extract for a buffer that was read
chooseExtractor(buffer) ==
    IF Len(buffer) < 4 THEN "toosmall"
    ELSE IF BigEndianUint16(buffer, 0) = 53455 THEN "ole"
    ELSE IF BigEndianUint16(buffer, 0) = 20555
              /\ BigEndianUint16(buffer, 2) \in {772, 1286, 1800}
         THEN "docx"
    ELSE "unsupported"

InitExtract ==
    /\ pc = "source"
    /\ pieces = <<>>
    /\ ops = 0
    /\ boundaries = NoBoundaries
    /\ plcHddCount = 0
    /\ story = 0
    /\ hddStart = 0
    /\ taggedHeaders = <<>>
    /\ doc = EmptyDoc
    /\ \E n \in 0..MaxSourceLen : input \in [1..n -> SourceBytes]
    /\ text = <<>>
    /\ stream = <<>>
    /\ fkp = NoPass
    /\ opts = NilOptions
    /\ cli = NoRun
    /\ sprms = NoSprms
    /\ runs = NoRuns
    /\ plcPcd = NoPlcPcd
    /\ bkmk = NoBkmk
    /\ docx = NoDocx

extractFrame == <<pieces, ops, boundaries, plcHddCount, story, hddStart,
                  taggedHeaders, doc, input, text, stream, fkp, opts, cli, sprms, runs, plcPcd, bkmk, docx>>

\* the first Read of the source: a reader at its end returns io.EOF, and
\* Extract returns that error
ReadSource ==
    /\ pc = "source"
    /\ pc' = IF Len(input) = 0 THEN "ioerror" ELSE "sniff"
    /\ UNCHANGED extractFrame

\* the signature check; the extractor that is chosen takes over from here
ChooseExtractor ==
    /\ pc = "sniff"
    /\ pc' = chooseExtractor(ReadBuffer(input))
    /\ UNCHANGED extractFrame

NextExtract == ReadSource \/ ChooseExtractor

SpecExtract == InitExtract /\ [][NextExtract]_vars

----------------------------------------------------------------------------
(* The getters of the Document *)

filterTable ==
    (8194 :> <<32>>) @@ (8195 :> <<32>>) @@
    (8210 :> <<45>>) @@ (8211 :> <<45>>) @@ (8212 :> <<45>>) @@
    (8216 :> <<39>>) @@ (8217 :> <<39>>) @@
    (8220 :> <<34>>) @@ (8221 :> <<34>>)

filterTextQuotesOnly(t) ==
    Flatten([i \in 1..Len(t) |->
                IF t[i] \in {8216, 8217, 8220, 8221} THEN filterTable[t[i]]
                ELSE <<t[i]>>])

filterText(t) ==
    Flatten([i \in 1..Len(t) |->
                IF t[i] \in DOMAIN filterTable THEN filterTable[t[i]]
                ELSE <<t[i]>>])

\* Filter, which the getters call: the filter table applied character by
\* character
Filter(t) == filterText(t)

defaultOptions ==
    [nil |-> FALSE, FilterUnicode |-> TRUE, IncludeFooters |-> TRUE,
     IncludeHeadersAndFooters |-> TRUE, IncludeBody |-> TRUE]

\* if opts == nil { opts = defaultOptions() }
OptionsOrDefault(o) == IF o.nil THEN defaultOptions ELSE o

AllOptions ==
    {NilOptions} \cup
    [nil : {FALSE}, FilterUnicode : BOOLEAN, IncludeFooters : BOOLEAN,
     IncludeHeadersAndFooters : BOOLEAN, IncludeBody : BOOLEAN]

RECURSIVE stringsJoin(_, _)
stringsJoin(parts, sep) ==
    IF parts = <<>> THEN <<>>
    ELSE IF Len(parts) = 1 THEN parts[1]
    ELSE parts[1] \o sep \o stringsJoin(Tail(parts), sep)

GetBody(d, o) ==
    IF OptionsOrDefault(o).FilterUnicode THEN Filter(d.Body) ELSE d.Body

GetHeadersAlwaysFooters(d, o) ==
    LET value == d.Headers \o d.Footers
    IN  IF OptionsOrDefault(o).FilterUnicode THEN Filter(value) ELSE value

GetHeaders(d, o) ==
    LET opt == OptionsOrDefault(o)
        value == d.Headers \o (IF opt.IncludeFooters THEN d.Footers ELSE <<>>)
    IN  IF opt.FilterUnicode THEN Filter(value) ELSE value

GetFootnotes(d, o) ==
    IF OptionsOrDefault(o).FilterUnicode THEN Filter(d.Footnotes) ELSE d.Footnotes

GetEndnotes(d, o) ==
    IF OptionsOrDefault(o).FilterUnicode THEN Filter(d.Endnotes) ELSE d.Endnotes

GetFooters(d, o) ==
    IF OptionsOrDefault(o).FilterUnicode THEN Filter(d.Footers) ELSE d.Footers

GetAnnotations(d, o) ==
    IF OptionsOrDefault(o).FilterUnicode THEN Filter(d.Annotations)
    ELSE d.Annotations

GetTextboxesSeparatorAlways(d, o) ==
    LET opt == OptionsOrDefault(o)
        result == (IF opt.IncludeBody THEN d.Textboxes ELSE <<>>) \o <<10>> \o
                  (IF opt.IncludeHeadersAndFooters THEN d.HeaderTextboxes ELSE <<>>)
    IN  IF opt.FilterUnicode THEN Filter(result) ELSE result

GetTextboxes(d, o) ==
    LET opt == OptionsOrDefault(o)
        parts == (IF opt.IncludeBody THEN <<d.Textboxes>> ELSE <<>>) \o
                 (IF opt.IncludeHeadersAndFooters THEN <<d.HeaderTextboxes>>
                  ELSE <<>>)
        result == stringsJoin(parts, <<10>>)
    IN  IF opt.FilterUnicode THEN Filter(result) ELSE result

\* the code points of the filter table, and some it does not have
GetAlphabet == DOMAIN filterTable \cup {10, 65, 8208, 8222}

\* a Document whose fields are the two parts of a text cut at a position
DocumentOf(t, cut) ==
    LET head == SubSeq(t, 1, cut)
        tail == SubSeq(t, cut + 1, Len(t))
    IN  [Body |-> t, Footnotes |-> tail, Headers |-> head, Footers |-> tail,
         Annotations |-> head, Endnotes |-> t, Textboxes |-> head,
         HeaderTextboxes |-> tail]

InitGet ==
    /\ pc = "document"
    /\ pieces = <<>>
    /\ ops = 0
    /\ boundaries = NoBoundaries
    /\ plcHddCount = 0
    /\ story = 0
    /\ hddStart = 0
    /\ taggedHeaders = <<>>
    /\ \E n \in 0..MaxTextLen : \E t \in [1..n -> GetAlphabet] :
          \E cut \in 0..n : doc = DocumentOf(t, cut)
    /\ input = <<>>
    /\ text = <<>>
    /\ stream = <<>>
    /\ fkp = NoPass
    /\ opts = NilOptions
    /\ cli = NoRun
    /\ sprms = NoSprms
    /\ runs = NoRuns
    /\ plcPcd = NoPlcPcd
    /\ bkmk = NoBkmk
    /\ docx = NoDocx

getFrame == <<pieces, ops, boundaries, plcHddCount, story, hddStart,
              taggedHeaders, doc, input, stream, fkp, cli, sprms, runs, plcPcd, bkmk, docx>>

\* a call of the getter called name with some options, where returned[o] is
\* what it returns for the options o; text holds what it returned
GetterCalled(name, returned) ==
    /\ pc = "document"
    /\ \E o \in AllOptions :
          /\ opts' = o
          /\ text' = returned[o]
    /\ pc' = name
    /\ UNCHANGED getFrame

CallGetBody == GetterCalled("GetBody", [o \in AllOptions |-> GetBody(doc, o)])

CallGetHeaders == GetterCalled("GetHeaders", [o \in AllOptions |-> GetHeaders(doc, o)])

CallGetFootnotes == GetterCalled("GetFootnotes", [o \in AllOptions |-> GetFootnotes(doc, o)])

CallGetEndnotes == GetterCalled("GetEndnotes", [o \in AllOptions |-> GetEndnotes(doc, o)])

CallGetFooters == GetterCalled("GetFooters", [o \in AllOptions |-> GetFooters(doc, o)])

CallGetAnnotations == GetterCalled("GetAnnotations", [o \in AllOptions |-> GetAnnotations(doc, o)])

CallGetTextboxes == GetterCalled("GetTextboxes", [o \in AllOptions |-> GetTextboxes(doc, o)])

NextGet ==
    \/ CallGetBody
    \/ CallGetHeaders
    \/ CallGetFootnotes
    \/ CallGetEndnotes
    \/ CallGetFooters
    \/ CallGetAnnotations
    \/ CallGetTextboxes

SpecGet == InitGet /\ [][NextGet]_vars

----------------------------------------------------------------------------
(* main.go: run *)

\* What an argument can be: a path filepath.Abs cannot resolve, a path
\* os.Stat fails on, a file (or a directory holding one file) that is
\* extracted, one whose extraction returns an error, and one whose extraction
\* panics (writePieces and writeParagraphProperties slice unchecked).
ArgKinds == {"unresolvable", "missing", "file", "badfile", "panicfile",
             "dir", "baddir", "emptydir"}

\* the outcome of processFile for the file an argument names or holds
FileOutcome(kind) ==
    CASE kind \in {"file", "dir"} -> "ok"
      [] kind \in {"badfile", "baddir"} -> "error"
      [] kind = "panicfile" -> "panic"

InitRun ==
    /\ pc = "run"
    /\ pieces = <<>>
    /\ ops = 0
    /\ boundaries = NoBoundaries
    /\ plcHddCount = 0
    /\ story = 0
    /\ hddStart = 0
    /\ taggedHeaders = <<>>
    /\ doc = EmptyDoc
    /\ input = <<>>
    /\ text = <<>>
    /\ stream = <<>>
    /\ fkp = NoPass
    /\ opts = NilOptions
    /\ \E n \in 0..MaxArgs : \E a \in [1..n -> ArgKinds] :
          cli = [NoRun EXCEPT !.args = a]
    /\ sprms = NoSprms
    /\ runs = NoRuns
    /\ plcPcd = NoPlcPcd
    /\ bkmk = NoBkmk
    /\ docx = NoDocx

runFrame == <<pieces, ops, boundaries, plcHddCount, story, hddStart,
              taggedHeaders, doc, input, text, stream, fkp, opts, sprms, runs, plcPcd, bkmk, docx>>

\* run, up to the loop
RunStart ==
    /\ pc = "run"
    /\ IF Len(cli.args) = 0
       THEN pc' = "returned" /\ cli' = [cli EXCEPT !.result = "usage"]
       ELSE pc' = "loop" /\ cli' = [cli EXCEPT !.i = 1]
    /\ UNCHANGED runFrame

\* mutant: wg.Add(1) leaves the counter as it is
wgAddNothing(counter) == counter

\* sync.WaitGroup: Add(1), Done() and the condition Wait() returns on
wgAdd(counter) == counter + 1

wgDone(counter) == counter - 1

wgWaitReturns(counter) == counter = 0

\* one round of the loop over the arguments, up to wg.Add(1) for a file (in
\* run or in the walk of processDirectory)
RunArgument ==
    /\ pc = "loop"
    /\ cli.i <= Len(cli.args)
    /\ cli.adding = "none"
    /\ LET kind == cli.args[cli.i]
       IN  cli' = IF kind \in {"unresolvable", "missing"}
                  THEN [cli EXCEPT !.i = @ + 1, !.logged = @ + 1]
                  ELSE IF kind = "emptydir"
                  THEN [cli EXCEPT !.i = @ + 1]
                  ELSE [cli EXCEPT !.wg = wgAdd(@),
                                   !.adding = FileOutcome(kind)]
    /\ pc' = pc
    /\ UNCHANGED runFrame

\* go processFile(...): the goroutine exists from here on
GoProcessFile ==
    /\ pc = "loop"
    /\ cli.adding # "none"
    /\ cli' = [cli EXCEPT !.i = @ + 1,
                          !.adding = "none",
                          !.launched = @ + 1,
                          !.running = @ (+) SetToBag({cli.adding})]
    /\ pc' = pc
    /\ UNCHANGED runFrame

\* the loop is over: wg.Wait()
RunWait ==
    /\ pc = "loop"
    /\ cli.i > Len(cli.args)
    /\ pc' = "wait"
    /\ UNCHANGED <<cli, runFrame>>

\* a goroutine runs processFile to its end, by a return or by a panic, and
\* the deferred wg.Done() runs
ProcessFile ==
    /\ pc \in {"loop", "wait"}
    /\ \E outcome \in BagToSet(cli.running) :
          cli' = [cli EXCEPT !.running = @ (-) SetToBag({outcome}),
                             !.wg = wgDone(@),
                             !.finished = @ + 1,
                             !.dying = @ \/ outcome = "panic",
                             !.logged = IF outcome = "error" THEN @ + 1 ELSE @,
                             !.processed = IF outcome = "ok" THEN @ + 1 ELSE @]
    /\ pc' = pc
    /\ UNCHANGED runFrame

\* the panic of a goroutine is not recovered: behind its deferred calls the
\* runtime ends the process
Crash ==
    /\ pc \in {"loop", "wait", "returned"}
    /\ cli.dying
    /\ pc' = "crashed"
    /\ UNCHANGED <<cli, runFrame>>

\* wg.Wait() returns when the counter is 0, and run returns nil
RunReturn ==
    /\ pc = "wait"
    /\ wgWaitReturns(cli.wg)
    /\ pc' = "returned"
    /\ cli' = [cli EXCEPT !.result = "nil"]
    /\ UNCHANGED runFrame

NextRun ==
    \/ RunStart
    \/ RunArgument
    \/ GoProcessFile
    \/ RunWait
    \/ ProcessFile
    \/ Crash
    \/ RunReturn

SpecRun == InitRun /\ [][NextRun]_vars

----------------------------------------------------------------------------
(* processSprms, with the callbacks of the two property passes *)

\* bytes that make SPRM codes of every spra (the high byte selects it), the
\* code 0x2417, and operands and length bytes
GrpprlBytes == {0, 23, 36, 64, 96, 128, 160, 192, 224}

\* where the pass starts the iteration: the paragraph pass skips the istd
StartOffset(handler) == IF handler = "papx" THEN 2 ELSE 0

\* binary.LittleEndian.Uint16(buffer[offset:]), offset counted from 0
LittleEndianUint16(buffer, offset) == buffer[offset + 1] + 256 * buffer[offset + 2]

OperandLengthShortLong(buffer, offset, spra) ==
    CASE spra \in {0, 1} -> 1
      [] spra \in {2, 3} -> 2
      [] spra \in {4, 5} -> 2
      [] spra = 6 -> IF offset < Len(buffer) THEN buffer[offset + 1] + 1 ELSE 0
      [] spra = 7 -> 3

\* the switch on spra: what is added to the operand offset; 0 stands for a
\* read of buffer[offset] behind the buffer (the length byte), which panics
OperandLength(buffer, offset, spra) ==
    CASE spra \in {0, 1} -> 1
      [] spra = 2 -> 2
      [] spra = 3 -> 4
      [] spra \in {4, 5} -> 2
      [] spra = 6 -> IF offset < Len(buffer) THEN buffer[offset + 1] + 1 ELSE 0
      [] spra = 7 -> 3

\* the callback of writeCharacterProperties reads the operand byte of an
\* SPRM with ispmd = sprmCFRMarkDel; the one of writeParagraphProperties
\* reads nothing.  "panic" when that byte is behind the buffer, "hit" when the
\* callback changes the run, "skip" when not
HandlerOutcome(handler, buffer, offset, sprm, ispmd) ==
    IF handler = "chpx"
    THEN IF ispmd # 0 THEN "skip"
         ELSE IF offset >= Len(buffer) THEN "panic"
         ELSE IF buffer[offset + 1] % 2 = 1 THEN "hit"
         ELSE "skip"
    ELSE IF sprm = 9239 THEN "hit" ELSE "skip"

InitSprms ==
    /\ pc = "sprms"
    /\ pieces = <<>>
    /\ ops = 0
    /\ boundaries = NoBoundaries
    /\ plcHddCount = 0
    /\ story = 0
    /\ hddStart = 0
    /\ taggedHeaders = <<>>
    /\ doc = EmptyDoc
    /\ input = <<>>
    /\ text = <<>>
    /\ stream = <<>>
    /\ fkp = NoPass
    /\ opts = NilOptions
    /\ cli = NoRun
    /\ \E n \in 0..MaxGrpprl, handler \in {"chpx", "papx"} :
          \E buffer \in [1..n -> GrpprlBytes] :
             sprms = [buffer |-> buffer, handler |-> handler,
                      offset |-> StartOffset(handler), calls |-> <<>>]
    /\ runs = NoRuns
    /\ plcPcd = NoPlcPcd
    /\ bkmk = NoBkmk
    /\ docx = NoDocx

sprmsFrame == <<pieces, ops, boundaries, plcHddCount, story, hddStart,
                taggedHeaders, doc, input, text, stream, fkp, opts, cli, runs, plcPcd, bkmk, docx>>

\* one round of the loop: the code is read, the handler is called, the
\* cursor moves behind the operand
SprmStep ==
    /\ pc = "sprms"
    /\ sprms.offset < Len(sprms.buffer) - 1
    /\ LET buffer == sprms.buffer
           sprm == LittleEndianUint16(buffer, sprms.offset)
           ispmd == sprm % 512
           spra == sprm \div 8192
           offset == sprms.offset + 2
           outcome == HandlerOutcome(sprms.handler, buffer, offset, sprm, ispmd)
           length == OperandLength(buffer, offset, spra)
           call == [offset |-> offset, sprm |-> sprm, ispmd |-> ispmd,
                    spra |-> spra, outcome |-> outcome]
       IN  /\ sprms' = [sprms EXCEPT !.calls = Append(@, call),
                                     !.offset = IF outcome = "panic" \/ length = 0
                                                THEN offset ELSE offset + length]
           /\ pc' = IF outcome = "panic" \/ length = 0 THEN "panic" ELSE "sprms"
    /\ UNCHANGED sprmsFrame

\* the loop condition fails: processSprms returns
SprmsReturn ==
    /\ pc = "sprms"
    /\ ~(sprms.offset < Len(sprms.buffer) - 1)
    /\ pc' = "sprmsdone"
    /\ UNCHANGED <<sprms, sprmsFrame>>

NextSprms == SprmStep \/ SprmsReturn

SpecSprms == InitSprms /\ [][NextSprms]_vars

-----------------------------------------------------------------------------
(* The runs of one FKP page: the inner loops of writeCharacterProperties and
   writeParagraphProperties *)

MaxRuns == 2

\* processSprms as a function: the handler's outcome at each SPRM, in order,
\* closed by "panic" when a read leaves the grpprl
RECURSIVE SprmOutcomes(_, _, _)
SprmOutcomes(handler, buffer, offset) ==
    IF ~(offset < Len(buffer) - 1) THEN <<>>
    ELSE LET sprm == LittleEndianUint16(buffer, offset)
             operand == offset + 2
             outcome == HandlerOutcome(handler, buffer, operand, sprm, sprm % 512)
             length == OperandLength(buffer, operand, sprm \div 8192)
         IN  IF outcome = "panic" THEN <<"panic">>
             ELSE IF length = 0 THEN <<outcome, "panic">>
             ELSE <<outcome>> \o SprmOutcomes(handler, buffer, operand + length)

\* a CHPX grpprl: 0x0800 (ispmd 0, one operand byte) with the bit set or clear
ChpxGrpprls == {<<0, 8, 1>>, <<0, 8, 0>>, <<0, 8, 1, 0, 8, 1>>}

\* a PAPX grpprl with its istd: no SPRM, 0x2417, another SPRM, and the bytes
\* of 0x2417 in the place of the istd
PapxGrpprls == {<<0, 0>>, <<0, 0, 23, 36, 0>>, <<0, 0, 0, 8, 1>>, <<23, 36, 0>>}

\* rgb == 0: the run has no CHPX
NoGrpprl == [present |-> FALSE, bytes |-> <<>>]

Grpprls(handler) ==
    IF handler = "chpx"
    THEN {NoGrpprl} \cup {[present |-> TRUE, bytes |-> b] : b \in ChpxGrpprls}
    ELSE {[present |-> TRUE, bytes |-> b] : b \in PapxGrpprls}

\* the piece tables of the page's document: those of DelTables and one whose
\* second piece lies before the first in the file
RunTables ==
    DelTables \cup {writePieces(StreamText, <<2, 0>>, <<0, 1, 2>>).pieces}

\* the handlers' calls for one run: each hit replaces the run's range, the
\* character pass through the lastDeletionEnd branch
RECURSIVE ApplyOutcomes(_, _, _, _, _, _, _)
ApplyOutcomes(ps, outcomes, handler, rgfc, rgfcNext, last, pad) ==
    IF outcomes = <<>> THEN [ok |-> TRUE, pieces |-> ps, last |-> last]
    ELSE IF Head(outcomes) = "panic" THEN [ok |-> FALSE, pieces |-> ps, last |-> last]
    ELSE IF Head(outcomes) = "skip"
    THEN ApplyOutcomes(ps, Tail(outcomes), handler, rgfc, rgfcNext, last, pad)
    ELSE LET r == IF handler = "papx"
                  THEN replaceSelectedRangeByFilePos(ps, rgfc, rgfcNext, 10, pad)
                  ELSE IF last = rgfc
                       THEN markDeletedRange(ps, last, rgfcNext, pad)
                       ELSE markDeletedRange(ps, rgfc, rgfcNext, pad)
         IN  IF ~r.ok THEN [ok |-> FALSE, pieces |-> ps, last |-> last]
             ELSE ApplyOutcomes(r.pieces, Tail(outcomes), handler, rgfc, rgfcNext,
                                IF handler = "chpx" THEN rgfcNext ELSE last, pad)

InitRuns ==
    /\ pc = "runs"
    /\ pieces \in RunTables
    /\ ops = 0
    /\ boundaries = NoBoundaries
    /\ plcHddCount = 0
    /\ story = 0
    /\ hddStart = 0
    /\ taggedHeaders = <<>>
    /\ doc = EmptyDoc
    /\ input = <<>>
    /\ text = <<>>
    /\ stream = <<>>
    /\ fkp = NoPass
    /\ opts = NilOptions
    /\ cli = NoRun
    /\ sprms = NoSprms
    /\ \E crun \in 1..MaxRuns, handler \in {"chpx", "papx"} :
          \E rgfc \in [1..(crun + 1) -> FilePositions] :
             \E grpprl \in [1..crun -> Grpprls(handler)] :
                runs = [handler |-> handler, rgfc |-> rgfc, grpprl |-> grpprl,
                        j |-> 0, lastDeletionEnd |-> 0, before |-> pieces]
    /\ plcPcd = NoPlcPcd
    /\ bkmk = NoBkmk
    /\ docx = NoDocx

runsFrame == <<ops, boundaries, plcHddCount, story, hddStart, taggedHeaders,
               doc, input, text, stream, fkp, opts, cli, sprms, plcPcd, bkmk, docx>>

\* one turn of the loop over j
RunOfPage ==
    /\ pc = "runs"
    /\ runs.j < Len(runs.grpprl)
    /\ LET rgfc == runs.rgfc[runs.j + 1]
           rgfcNext == runs.rgfc[runs.j + 2]
           grpprl == runs.grpprl[runs.j + 1]
       IN  IF ~grpprl.present
           THEN /\ runs' = [runs EXCEPT !.j = @ + 1]
                /\ UNCHANGED <<pc, pieces>>
           ELSE \E pad \in BOOLEAN :
                   LET r == ApplyOutcomes(pieces,
                                SprmOutcomes(runs.handler, grpprl.bytes,
                                             StartOffset(runs.handler)),
                                runs.handler, rgfc, rgfcNext,
                                runs.lastDeletionEnd, pad)
                   IN  /\ pieces' = r.pieces
                       /\ runs' = [runs EXCEPT !.j = @ + 1,
                                               !.lastDeletionEnd = r.last]
                       /\ pc' = IF r.ok THEN "runs" ELSE "panic"
    /\ UNCHANGED runsFrame

\* j reached crun: the page is done
RunsReturn ==
    /\ pc = "runs"
    /\ runs.j = Len(runs.grpprl)
    /\ pc' = "runsdone"
    /\ UNCHANGED <<pieces, runs, runsFrame>>

NextRuns == RunOfPage \/ RunsReturn

SpecRuns == InitRuns /\ [][NextRuns]_vars

-----------------------------------------------------------------------------
(* writePieces on the piece table as stored in the table stream *)

\* (2^32 - 4 + s) / 12 for s in 0..3
WrappedPieceCount == 357913941

\* (pieceTableSize - 4) / 12 in uint32: below 4 the difference wraps
pieceCount(pieceTableSize) ==
    IF pieceTableSize < 4 THEN WrappedPieceCount
    ELSE (pieceTableSize - 4) \div 12

\* a 32-bit value as two 16-bit words, low word first
Uint32Words(v) == <<v % 65536, v \div 65536>>

RECURSIVE CpWords(_)
CpWords(cps) ==
    IF cps = <<>> THEN <<>> ELSE Uint32Words(Head(cps)) \o CpWords(Tail(cps))

\* a piece descriptor: 2 bytes of flags, the fc, 2 bytes of prm
RECURSIVE PcdWords(_)
PcdWords(fcs) ==
    IF fcs = <<>> THEN <<>>
    ELSE <<0>> \o Uint32Words(Head(fcs)) \o <<0>> \o PcdWords(Tail(fcs))

\* the bytes behind pieceTableSize for pieces with these fcs and CPs
PlcPcdWords(fcs, cps) == CpWords(cps) \o PcdWords(fcs)

\* fc values of the stored descriptors: those of FcChoices and single-byte
\* pieces at byte 1 (odd fc) and byte 2
StoredFcChoices == FcChoices \cup {CompressedBit + 3, CompressedBit + 4}

PieceTableSizes == {0, 3, 15} \cup {4 + 12 * n : n \in 0..MaxPieces}

\* binary.LittleEndian.Uint32(tableBuffer[offset:]): the slice and the read
\* must lie in the table
CanReadUint32(table, offset) == offset + 4 <= 2 * Len(table)

ReadUint32(table, offset) ==
    table[offset \div 2 + 1] + 65536 * table[offset \div 2 + 2]

\* the fc of descriptor x (from 0) when the table holds count pieces
PcdOffset(count, x) == (count + 1) * 4 + x * 8 + 2

RECURSIVE ReadPiecesFrom(_, _, _, _, _)
ReadPiecesFrom(buffer, table, count, x, acc) ==
    IF ~(x < count) THEN [ok |-> TRUE, pieces |-> acc]
    ELSE IF \/ ~CanReadUint32(table, PcdOffset(count, x))
            \/ ~CanReadUint32(table, (x + 1) * 4)
    THEN Panicked
    ELSE LET startCp == IF acc = <<>> THEN 0 ELSE acc[Len(acc)].EndCp
             startStream == IF acc = <<>> THEN 0 ELSE acc[Len(acc)].EndStream
             r == MakePiece(buffer, ReadUint32(table, PcdOffset(count, x)),
                            ReadUint32(table, x * 4), ReadUint32(table, (x + 1) * 4),
                            startCp, startStream)
         IN  IF r.ok THEN ReadPiecesFrom(buffer, table, count, x + 1,
                                         Append(acc, r.piece))
             ELSE Panicked

readPieceTable(buffer, table, pieceTableSize) ==
    ReadPiecesFrom(buffer, table, pieceCount(pieceTableSize), 0, <<>>)

InitPcd ==
    /\ pc = "pcd"
    /\ pieces = <<>>
    /\ ops = 0
    /\ boundaries = NoBoundaries
    /\ plcHddCount = 0
    /\ story = 0
    /\ hddStart = 0
    /\ taggedHeaders = <<>>
    /\ doc = EmptyDoc
    /\ input = <<>>
    /\ text = <<>>
    /\ stream \in Streams
    /\ fkp = NoPass
    /\ opts = NilOptions
    /\ cli = NoRun
    /\ sprms = NoSprms
    /\ runs = NoRuns
    /\ \E n \in 0..MaxPieces, size \in PieceTableSizes :
          \E fcs \in [1..n -> StoredFcChoices], cps \in [1..(n + 1) -> 0..MaxCp] :
             plcPcd = [size |-> size, table |-> PlcPcdWords(fcs, cps)]
    /\ bkmk = NoBkmk
    /\ docx = NoDocx

pcdFrame == <<ops, boundaries, plcHddCount, story, hddStart, taggedHeaders,
              doc, input, text, stream, fkp, opts, cli, sprms, runs, plcPcd, bkmk, docx>>

\* the loop of writePieces over the stored table
ReadPieceTable ==
    /\ pc = "pcd"
    /\ \E slack \in {0, MaxSlack} :
          LET buffer == stream \o [i \in 1..slack |-> 0]
              r == readPieceTable(buffer, plcPcd.table, plcPcd.size)
          IN  IF r.ok THEN pc' = "chpx" /\ pieces' = r.pieces
              ELSE pc' = "panic" /\ pieces' = pieces
    /\ UNCHANGED pcdFrame

NextPcd == ReadPieceTable

SpecPcd == InitPcd /\ [][NextPcd]_vars

-----------------------------------------------------------------------------
(* writeBookmarks: the loop over the bookmark names *)

MaxNames == 2

\* the names of the table: "", "a", "b" as UTF-16 code units
NameChoices == {<<>>, <<97>>, <<98>>}

\* the name table as 16-bit words: 0xFFFF, the count and a word of extra
\* data size, then each name behind its length
RECURSIVE NameWords(_)
NameWords(names) ==
    IF names = <<>> THEN <<>>
    ELSE <<Len(Head(names))>> \o Head(names) \o NameWords(Tail(names))

SttbfBkmk(names) == <<65535, Len(names), 0>> \o NameWords(names)

InitBkmk ==
    /\ pc = "bkmkloop"
    /\ pieces = <<>>
    /\ ops = 0
    /\ boundaries = NoBoundaries
    /\ plcHddCount = 0
    /\ story = 0
    /\ hddStart = 0
    /\ taggedHeaders = <<>>
    /\ doc = EmptyDoc
    /\ input = <<>>
    /\ text = <<>>
    /\ stream = <<>>
    /\ fkp = NoPass
    /\ opts = NilOptions
    /\ cli = NoRun
    /\ sprms = NoSprms
    /\ runs = NoRuns
    /\ plcPcd = NoPlcPcd
    /\ \E n \in 0..MaxNames :
          \E names \in [1..n -> NameChoices], bkf \in [1..n -> 0..MaxCp],
             bkl \in [1..n -> 0..MaxCp] :
             bkmk = [sttbfBkmk |-> SttbfBkmk(names), plcfBkf |-> bkf,
                     plcfBkl |-> bkl, offset |-> 6, index |-> 0, bookmarks |-> {}]
    /\ docx = NoDocx

bkmkFrame == <<pieces, ops, boundaries, plcHddCount, story, hddStart,
               taggedHeaders, doc, input, text, stream, fkp, opts, cli, sprms,
               runs, plcPcd, docx>>

\* one turn of the loop: the name at offset is stored with the CPs at index,
\* and index is left as it is
BookmarkStep ==
    /\ pc = "bkmkloop"
    /\ bkmk.offset < 2 * Len(bkmk.sttbfBkmk)
    /\ LET at == bkmk.offset \div 2 + 1
           length == bkmk.sttbfBkmk[at] * 2
           segment == SubSeq(bkmk.sttbfBkmk, at + 1, at + length \div 2)
           cpStart == bkmk.plcfBkf[bkmk.index + 1]
           cpEnd == bkmk.plcfBkl[bkmk.index + 1]
       IN  bkmk' = [bkmk EXCEPT
                      !.bookmarks = {b \in @ : b.name # segment}
                                    \cup {[name |-> segment, Start |-> cpStart,
                                           End |-> cpEnd]},
                      !.offset = @ + length + 2]
    /\ pc' = pc
    /\ UNCHANGED bkmkFrame

\* offset reached lcbSttbfBkmk
BookmarksReturn ==
    /\ pc = "bkmkloop"
    /\ ~(bkmk.offset < 2 * Len(bkmk.sttbfBkmk))
    /\ pc' = "bkmkdone"
    /\ UNCHANGED <<bkmk, bkmkFrame>>

NextBkmk == BookmarkStep \/ BookmarksReturn

SpecBkmk == InitBkmk /\ [][NextBkmk]_vars

-----------------------------------------------------------------------------
(* The docx extractor: the handlers on the elements of a part *)

MaxEvents == 6      \* tags and character data of the part after its root
MaxOpen == 3        \* elements open at once below the root

\* U+000A, U+0009 and the letter x
Newline == 10
Tab == 9
LetterX == 120

\* joinRunes
RECURSIVE joinRunes(_)
joinRunes(ps) == IF ps = <<>> THEN <<>> ELSE Head(ps) \o joinRunes(Tail(ps))

\* the elements below the root that the handlers give a context
OpenTags == {"txbxContent", "drawing", "tc", "del"}

\* the text contexts: character data and paragraph ends are kept in them
InText(context) ==
    context # <<>> /\ context[1] \in {"content", "cell", "textbox"}

\* handleOpenTag on an element of OpenTags
handleOpenTag(e, tag) ==
    CASE tag = "del" -> [e EXCEPT !.context = <<"deleted">> \o @]
      [] tag = "tc" -> [e EXCEPT !.context = <<"cell">> \o @]
      [] tag = "drawing" -> [e EXCEPT !.context = <<"drawing">> \o @]
      [] tag = "txbxContent" ->
            [e EXCEPT !.piecesStack = Append(@, e.pieces),
                      !.pieces = <<>>,
                      !.context = <<"textbox">> \o @]

\* mutant: the close tag keeps the pieces of the textbox
restorePiecesKeepsTextbox(e) ==
    [e EXCEPT !.piecesStack = IF @ = <<>> THEN @ ELSE SubSeq(@, 1, Len(@) - 1)]

\* handleCloseTag, txbxContent: the pieces come back from the stack
restorePieces(e) ==
    IF e.piecesStack # <<>>
    THEN [e EXCEPT !.pieces = e.piecesStack[Len(e.piecesStack)],
                   !.piecesStack = SubSeq(@, 1, Len(@) - 1)]
    ELSE [e EXCEPT !.pieces = <<>>]

\* a document field with a textbox added behind a newline
AddTextbox(field, textBox) ==
    IF field # <<>> THEN field \o <<Newline>> \o textBox ELSE textBox

\* handleCloseTag on txbxContent: ok = FALSE when e.context[0] is read from
\* an empty context
closeTxbxContent(e, d) ==
    LET textBox == joinRunes(e.pieces)
        popped == restorePieces([e EXCEPT !.context = Tail(@)])
    IN  IF e.context = <<>> THEN [ok |-> FALSE, e |-> e, d |-> d]
        ELSE IF e.context[1] # "textbox" THEN [ok |-> TRUE, e |-> e, d |-> d]
        ELSE IF popped.context # <<>> /\ popped.context[1] = "drawing"
        THEN [ok |-> TRUE, e |-> popped, d |-> d]
        ELSE IF textBox = <<>> THEN [ok |-> TRUE, e |-> popped, d |-> d]
        ELSE IF \E i \in DOMAIN popped.context : popped.context[i] = "header"
        THEN [ok |-> TRUE, e |-> popped,
              d |-> [d EXCEPT !.HeaderTextboxes = AddTextbox(@, textBox)]]
        ELSE [ok |-> TRUE, e |-> popped,
              d |-> [d EXCEPT !.Textboxes = AddTextbox(@, textBox)]]

\* handleCloseTag on an element of OpenTags
handleCloseTag(e, d, tag) ==
    CASE tag \in {"del", "drawing"} ->
            [ok |-> TRUE, d |-> d,
             e |-> [e EXCEPT !.context = IF @ # <<>> THEN Tail(@) ELSE @]]
      [] tag = "tc" ->
            [ok |-> TRUE, d |-> d,
             e |-> [e EXCEPT !.pieces = (IF @ # <<>> THEN SubSeq(@, 1, Len(@) - 1)
                                         ELSE @) \o <<<<Tab>>>>,
                             !.context = IF @ # <<>> THEN Tail(@) ELSE @]]
      [] tag = "txbxContent" -> closeTxbxContent(e, d)

\* the root element of the part is open: document or hdr, with text before
\* the part's first textbox or none
InitDocx ==
    /\ pc = "docx"
    /\ pieces = <<>>
    /\ ops = 0
    /\ boundaries = NoBoundaries
    /\ plcHddCount = 0
    /\ story = 0
    /\ hddStart = 0
    /\ taggedHeaders = <<>>
    /\ doc = EmptyDoc
    /\ input = <<>>
    /\ text = <<>>
    /\ stream = <<>>
    /\ fkp = NoPass
    /\ opts = NilOptions
    /\ cli = NoRun
    /\ sprms = NoSprms
    /\ runs = NoRuns
    /\ plcPcd = NoPlcPcd
    /\ bkmk = NoBkmk
    /\ \E root \in {"body", "header"}, before \in {<<>>, <<<<LetterX>>>>} :
          docx = [NoDocx EXCEPT !.context = <<"content", root>>,
                                !.pieces = before]

docxFrame == <<pieces, ops, boundaries, plcHddCount, story, hddStart,
               taggedHeaders, input, text, stream, fkp, opts, cli, sprms,
               runs, plcPcd, bkmk>>

\* the fields of docx that are the extractor's
Extractor(x) ==
    [context |-> x.context, pieces |-> x.pieces, piecesStack |-> x.piecesStack]

\* a start tag; the input's open elements are kept with the extractor as it
\* was at the tag
OpenTag ==
    /\ pc = "docx"
    /\ docx.events < MaxEvents
    /\ Len(docx.open) < MaxOpen
    /\ \E tag \in OpenTags :
          LET e == handleOpenTag(Extractor(docx), tag)
          IN  docx' = [context |-> e.context, pieces |-> e.pieces,
                       piecesStack |-> e.piecesStack,
                       open |-> Append(docx.open,
                                       [tag |-> tag, pieces |-> docx.pieces,
                                        context |-> docx.context]),
                       events |-> docx.events + 1]
    /\ pc' = pc
    /\ UNCHANGED <<doc, docxFrame>>

\* the end tag of the innermost open element
CloseTag ==
    /\ pc = "docx"
    /\ docx.events < MaxEvents
    /\ docx.open # <<>>
    /\ LET r == handleCloseTag(Extractor(docx), doc,
                               docx.open[Len(docx.open)].tag)
       IN  /\ docx' = [context |-> r.e.context, pieces |-> r.e.pieces,
                       piecesStack |-> r.e.piecesStack,
                       open |-> SubSeq(docx.open, 1, Len(docx.open) - 1),
                       events |-> docx.events + 1]
           /\ doc' = r.d
           /\ pc' = IF r.ok THEN pc ELSE "panic"
    /\ UNCHANGED docxFrame

\* handleCharData
CharData ==
    /\ pc = "docx"
    /\ docx.events < MaxEvents
    /\ docx' = [docx EXCEPT !.pieces = IF InText(docx.context)
                                       THEN Append(@, <<LetterX>>) ELSE @,
                            !.events = @ + 1]
    /\ pc' = pc
    /\ UNCHANGED <<doc, docxFrame>>

\* handleCloseTag on p
CloseParagraph ==
    /\ pc = "docx"
    /\ docx.events < MaxEvents
    /\ docx' = [docx EXCEPT !.pieces = IF InText(docx.context)
                                       THEN Append(@, <<Newline>>) ELSE @,
                            !.events = @ + 1]
    /\ pc' = pc
    /\ UNCHANGED <<doc, docxFrame>>

NextDocx == OpenTag \/ CloseTag \/ CharData \/ CloseParagraph

SpecDocx == InitDocx /\ [][NextDocx]_vars

----------------------------------------------------------------------------
(* Properties of the piece table *)

Range(f) == {f[i] : i \in DOMAIN f}

PieceTexts(ps) == [i \in 1..Len(ps) |-> ps[i].Text]

LastEndCp(ps) == IF ps = <<>> THEN 0 ELSE ps[Len(ps)].EndCp

\* every piece holds as many code points as its CP range
TextFitsCp(ps) == \A i \in 1..Len(ps) : Len(ps[i].Text) = ps[i].EndCp - ps[i].StartCp

\* C1: the pieces are ordered by StartCp, start at CP 0 and are contiguous in
\* CP space, after writePieces and after every mutation, so every CP below
\* the last EndCp lies in exactly one piece
C1_PiecesPartitionCpSpace ==
    /\ pieces # <<>> => pieces[1].StartCp = 0
    /\ \A i \in 1..(Len(pieces) - 1) :
          /\ pieces[i].StartCp <= pieces[i + 1].StartCp
          /\ pieces[i].EndCp = pieces[i + 1].StartCp
    /\ \A p \in 0..(LastEndCp(pieces) - 1) :
          Cardinality({i \in 1..Len(pieces) :
                          pieces[i].StartCp <= p /\ p < pieces[i].EndCp}) = 1

\* two non-empty pieces after a deletion mark, a newline fill and the header
\* normalizer's position is reached
C1_Witness ==
    /\ pc = "hdd"
    /\ Len(pieces) = 2
    /\ \A i \in 1..2 : pieces[i].EndCp > pieces[i].StartCp
    /\ \E i \in 1..2 : 0 \in Range(pieces[i].Text)
    /\ \E i \in 1..2 : 10 \in Range(pieces[i].Text)

\* C2: in every state, each piece's text has EndCp - StartCp code points
C2_TextLengthKept == TextFitsCp(pieces)

\* the slices [a, a), [a, a + 1), ... of the pieces ps, from [a, b) on
RECURSIVE SliceRow(_, _, _)
SliceRow(ps, a, b) ==
    IF b > MaxCp + 1 THEN <<>>
    ELSE <<getTextRangeByCP(ps, a, b)>> \o SliceRow(ps, a, b + 1)

\* the rows of the CPs a, a + 1, ...: the slice [a, b) is at [a + 1][b - a + 1]
RECURSIVE SliceRows(_, _)
SliceRows(ps, a) ==
    IF a > MaxCp + 1 THEN <<>>
    ELSE <<SliceRow(ps, a, a)>> \o SliceRows(ps, a + 1)

C4_MarkDeletedIdempotent ==
    (pc = "chpx" /\ pieces # <<>>) =>
        \A x \in FilePositions, y \in FilePositions, pad \in BOOLEAN :
            LET once == markDeletedRange(pieces, x, y, pad)
            IN  once.ok =>
                    \A pad2 \in BOOLEAN :
                        markDeletedRange(once.pieces, x, y, pad2) = once

\* C5: on every piece table the extraction reaches, the slice [a, b) with
\* 0 <= a <= b <= total is the b - a code points at positions a .. b-1 of
\* the concatenated piece texts
C5_SliceIsSubstring ==
    pieces # <<>> =>
        \A a \in 0..LastEndCp(pieces), b \in 0..LastEndCp(pieces) :
            a <= b =>
                LET r == getTextRangeByCP(pieces, a, b)
                IN  /\ r.ok
                    /\ Len(r.text) = b - a
                    /\ r.text = SubSeq(Flatten(PieceTexts(pieces)), a + 1, b)

\* C6: the file range of every piece is Bpc times its CP range, and the CP
\* range is the length the piece table declares
C6_FileRangeIsBpcTimesCpRange ==
    \A i \in 1..Len(pieces) :
        /\ pieces[i].EndFilePos - pieces[i].StartFilePos
               = pieces[i].Bpc * (pieces[i].EndCp - pieces[i].StartCp)
        /\ pieces[i].EndCp - pieces[i].StartCp = pieces[i].TotLength

----------------------------------------------------------------------------
(* Properties of cleanText *)

\* what the control-character mapping is stated to be
StatedControlMap(c) ==
    IF c \in {2, 5, 8} THEN <<>>
    ELSE IF c = 7 THEN <<9>>
    ELSE IF c \in {10, 11, 12, 13} THEN <<10>>
    ELSE IF c = 30 THEN <<8209>>
    ELSE <<c>>

\* the characters the statement speaks about: the mapped ones and every
\* other character above 0x07 that is no field marker
StatedControlDomain == {c \in CleanAlphabet : (c > 7 /\ c \notin FieldMarkers) \/ c \in {2, 5, 7}}

\* C10: the control characters 0x02, 0x05, 0x08 are deleted, 0x07 becomes a
\* tab, 0x0A..0x0D a newline, 0x1E becomes U+2011 and every other character
\* above 0x07 that is no field marker is left as is; read on the result of
\* cleanText for a string without field markers, where the second statement
\* changes nothing and the third only drops the NULs the first one wrote
C10_ControlCharacterMap ==
    (pc = "cleaned" /\ \A i \in 1..Len(input) : input[i] \in StatedControlDomain) =>
        text = Flatten([i \in 1..Len(input) |-> StatedControlMap(input[i])])

----------------------------------------------------------------------------
(* Properties of the region slicer and the header normalizer *)

AllText(ps) == Flatten(PieceTexts(ps))

\* the code points at CPs a .. b-1 of the concatenated piece texts
CpRange(ps, a, b) == SubSeq(AllText(ps), a + 1, Min(b, Len(AllText(ps))))

RegionOrder == <<"CcpText", "CcpFtn", "CcpHdd", "CcpAtn", "CcpEdn", "CcpTxbx",
                 "CcpHdrTxbx">>

\* the sum of the lengths of the first n regions
RECURSIVE RegionEnd(_, _)
RegionEnd(b, n) == IF n = 0 THEN 0 ELSE RegionEnd(b, n - 1) + b[RegionOrder[n]]

\* region n without its last CP, cleaned; empty for an empty region
StatedRegion(ps, b, n) ==
    IF b[RegionOrder[n]] > 0
    THEN cleanText(CpRange(ps, RegionEnd(b, n - 1), RegionEnd(b, n) - 1))
    ELSE <<>>

\* C7: the body is the CP range [0, CcpText); footnotes, annotations,
\* endnotes, textboxes and header textboxes are [s, s + Ccp - 1) for a
\* non-empty region and empty otherwise, s being the sum of the lengths of
\* the regions before it, headers included; each field therefore holds CPs
\* of its own region only
C7_RegionsByCcp ==
    pc = "done" =>
        /\ doc.Body = cleanText(CpRange(pieces, 0, boundaries.CcpText))
        /\ doc.Footnotes = StatedRegion(pieces, boundaries, 2)
        /\ doc.Annotations = StatedRegion(pieces, boundaries, 4)
        /\ doc.Endnotes = StatedRegion(pieces, boundaries, 5)
        /\ doc.Textboxes = StatedRegion(pieces, boundaries, 6)
        /\ doc.HeaderTextboxes = StatedRegion(pieces, boundaries, 7)

\* every region is non-empty and every region field holds text
C7_Witness ==
    /\ pc = "done"
    /\ \A n \in 1..7 : boundaries[RegionOrder[n]] > 1
    /\ doc.Body # <<>> /\ doc.Footnotes # <<>> /\ doc.Annotations # <<>>
    /\ doc.Endnotes # <<>> /\ doc.Textboxes # <<>> /\ doc.HeaderTextboxes # <<>>

\* the texts of the stories (0-based index s) with s >= 6 and s mod 6 in kinds
StoriesOfKind(th, kinds) ==
    Flatten([i \in 1..Len(th) |->
                IF i - 1 >= 6 /\ (i - 1) % 6 \in kinds THEN th[i].Text ELSE <<>>])

\* C8: a PlcfHdd of k CPs gives k - 1 stories; Headers is the cleaned
\* concatenation of the stories s >= 6 with s mod 6 in {0, 1, 4}, Footers
\* that of the stories s >= 6 with s mod 6 in {2, 3, 5}; stories 0..5 are in
\* neither
C8_HeadersAndFootersByStory ==
    pc = "done" =>
        /\ plcHddCount >= 1 => Len(taggedHeaders) = plcHddCount - 1
        /\ doc.Headers = cleanText(StoriesOfKind(taggedHeaders, {0, 1, 4}))
        /\ doc.Footers = cleanText(StoriesOfKind(taggedHeaders, {2, 3, 5}))

\* a separator story, a header story and a footer story hold text
C8_Witness ==
    /\ pc = "done"
    /\ Len(taggedHeaders) >= 9
    /\ \E i \in 1..6 : taggedHeaders[i].Text # <<>>
    /\ doc.Headers # <<>>
    /\ doc.Footers # <<>>

\* no character other than CR, LF and 0x02..0x08
OnlyBlank(t) == \A i \in 1..Len(t) : t[i] \in {13, 10, 2, 3, 4, 5, 6, 7, 8}

\* C9: a step of the normalizer over the story [start, end) records the text
\* of that CP range as it was before the step; when the text is blank every
\* CP of [start, end) becomes NUL, otherwise only the CP end - 1 does; every
\* other CP keeps its code point
C9_StoryReplacement ==
    [][(pc = "story" /\ pc' = "story" /\ story' = story + 1) =>
          LET start == hddStart
              end == hddStart'
              before == AllText(pieces)
              after == AllText(pieces')
              snapshot == taggedHeaders'[Len(taggedHeaders')].Text
          IN  /\ Len(taggedHeaders') = Len(taggedHeaders) + 1
              /\ snapshot = CpRange(pieces, start, end)
              /\ Len(after) = Len(before)
              /\ \A p \in 0..(Len(before) - 1) :
                    after[p + 1] =
                        IF start <= p /\ p < end /\ (OnlyBlank(snapshot) \/ p = end - 1)
                        THEN 0
                        ELSE before[p + 1]]_vars

\* a blank story of 2 CPs and a story of 2 CPs with text have been replaced:
\* the first is all NUL, the second keeps its first CP
C9_Witness ==
    /\ pc = "story"
    /\ \E i \in 1..Len(taggedHeaders), j \in 1..Len(taggedHeaders) :
          /\ Len(taggedHeaders[i].Text) = 2 /\ OnlyBlank(taggedHeaders[i].Text)
          /\ Len(taggedHeaders[j].Text) = 2 /\ ~OnlyBlank(taggedHeaders[j].Text)
    /\ Cardinality({p \in 1..Len(AllText(pieces)) : AllText(pieces)[p] = 0}) = 3

----------------------------------------------------------------------------
(* Properties of the field collapse *)

\* a field read in one pass with a stack of open fields: [ok, text]; ok when
\* every 0x13 is closed, every 0x14 and 0x15 is inside a field and no field
\* has two 0x14; text is the text outside fields with every field replaced
\* by its result
RECURSIVE FieldEval(_, _, _, _)
FieldEval(t, i, stack, out) ==
    IF i > Len(t) THEN [ok |-> stack = <<>>, text |-> out]
    ELSE LET n == Len(stack)
             put(v) == IF n = 0 THEN FieldEval(t, i + 1, stack, out \o v)
                       ELSE FieldEval(t, i + 1,
                                [stack EXCEPT ![n].res = @ \o v], out)
         IN  IF t[i] = 19
             THEN FieldEval(t, i + 1, Append(stack, [sep |-> FALSE, res |-> <<>>]), out)
             ELSE IF t[i] = 20
             THEN IF n = 0 \/ stack[n].sep THEN [ok |-> FALSE, text |-> <<>>]
                  ELSE FieldEval(t, i + 1,
                           [stack EXCEPT ![n] = [sep |-> TRUE, res |-> <<>>]], out)
             ELSE IF t[i] = 21
             THEN IF n = 0 THEN [ok |-> FALSE, text |-> <<>>]
                  ELSE LET v == IF stack[n].sep THEN stack[n].res ELSE <<>>
                           below == SubSeq(stack, 1, n - 1)
                       IN  IF n = 1 THEN FieldEval(t, i + 1, below, out \o v)
                           ELSE FieldEval(t, i + 1,
                                    [below EXCEPT ![n - 1].res = @ \o v], out)
             ELSE put(<<t[i]>>)

StatedFieldResult(t) == FieldEval(t, 1, <<>>, <<>>)

\* a substring of t from a 0x13 to a 0x15 with no other 0x13 or 0x15 and at
\* most maxSep 0x14 in between
HasField(t, maxSep) ==
    \E i \in 1..Len(t), j \in 1..Len(t) :
        /\ i < j /\ t[i] = 19 /\ t[j] = 21
        /\ \A k \in (i + 1)..(j - 1) : t[k] \notin {19, 21}
        /\ Cardinality({k \in (i + 1)..(j - 1) : t[k] = 20}) <= maxSep

\* C11 (as stated): after cleanText no substring runs from a 0x13 to a 0x15
\* without another 0x13 or 0x15 in between, and a string of well-formed
\* fields is the text outside the fields with each field replaced by its
\* result, innermost first
C11_NoFieldLeft ==
    pc = "cleaned" =>
        /\ ~HasField(text, Len(text))
        /\ StatedFieldResult(input).ok => text = StatedFieldResult(input).text

\* C11 (amended): after cleanText no substring runs from a 0x13 to a 0x15
\* with no other 0x13 or 0x15 and at most one 0x14 in between, and a string
\* of well-formed fields is the text outside the fields with each field
\* replaced by its result, innermost first
C11_NoMatchableFieldLeft ==
    pc = "cleaned" =>
        /\ ~HasField(text, 1)
        /\ StatedFieldResult(input).ok => text = StatedFieldResult(input).text

\* a field nested in the result of another field: the letter of the inner
\* field's result is what cleanText returns for the outer one
C11_Witness ==
    /\ pc = "cleaned"
    /\ StatedFieldResult(input).ok
    /\ input = <<19, 20, 19, 20, 69, 21, 21>>
    /\ text = <<69>>

----------------------------------------------------------------------------
(* Properties of the Document fields *)

DocFields == {"Body", "Footnotes", "Headers", "Footers", "Annotations",
              "Endnotes", "Textboxes", "HeaderTextboxes"}

\* t without its code points <= 0x07, the others in their order
WithoutControls(t) == SelectSeq(t, LAMBDA r : r > 7)

\* the body of "Hello cruel world" after the deletion of " cruel"
HelloWithoutCruel ==
    cleanText(getTextRangeByCP(markDeletedRange(HelloTable, 5, 11, FALSE).pieces,
                               0, Len(HelloStream)).text)

\* C12: no field of the Document holds a code point <= 0x07: the NULs written
\* over deleted runs and header stories are gone, and the body is the other
\* characters of its CP range in their order; deleting " cruel" from "Hello
\* cruel world" gives "Hello world"
C12_NoControlsInDocument ==
    pc = "done" =>
        /\ \A f \in DocFields : \A i \in 1..Len(doc[f]) : doc[f][i] > 7
        /\ doc.Body = WithoutControls(CpRange(pieces, 0, boundaries.CcpText))
        /\ HelloWithoutCruel = <<72, 101, 108, 108, 111, 32, 119, 111, 114, 108, 100>>

\* a deleted run inside the body and a header story: the pieces hold NULs,
\* the body has lost them and kept the characters around them
C12_Witness ==
    /\ pc = "done"
    /\ Len(pieces) = 1
    /\ pieces[1].Text = <<65, 0, 0, 0>>
    /\ boundaries.CcpText = 3
    /\ doc.Body = <<65>>
    /\ taggedHeaders # <<>>

----------------------------------------------------------------------------
(* Properties of the error handling *)

\* C13: writePieces does not abort and reads no byte behind the stream: a
\* piece whose byte range ends behind the stream ends the extraction with an
\* error
C13_PieceBeyondStreamIsError ==
    [][pc = "start" =>
          /\ pc' \in {"chpx", "error"}
          /\ pc' = "chpx" =>
                \A i \in 1..Len(pieces') : pieces'[i].EndFilePos <= Len(stream')]_vars

\* the file positions a pass was given lead outside the table stream, the
\* WordDocument stream or the FKP page
RangeBeyond(r) ==
    \/ r.fc + r.lcb > TableLen
    \/ /\ r.lcb >= 4
       /\ plcBteCount(r.lcb) > 0
       /\ \/ (r.page + 1) * FkpPageSize > BufferPages * FkpPageSize
          \/ r.grpprlEnd > FkpPageSize

\* C14: a pass over an optional index whose lcb is 0 (lcbSttbfBkmk,
\* lcbPlcfbteChpx, lcbPlcfbtePapx), and the header pass when lcbPlcfhdd is
\* below 8, processes no entry, leaves the pieces as they are and lets the
\* extraction go on without an error.
C14_ZeroLengthIndexIsSkipped ==
    [][/\ (pc \in {"bkmk", "chpxpass", "papxpass"} /\ fkp'.lcb = 0) =>
              /\ pc' \notin {"error", "panic"}
              /\ fkp'.entries = 0
              /\ pieces' = pieces
       /\ (pc = "normalize" /\ plcHddCount < 2) =>
              /\ pc' = "build"
              /\ pieces' = pieces]_vars

\* C15: in the character pass and in the paragraph pass, a PLCF-BTE range
\* behind the table stream, an FKP page behind the WordDocument stream or a
\* grpprl behind its page makes Extract return an error and no Document, and
\* nothing is read outside the table stream, the WordDocument stream or the
\* page.
C15_FkpRangesAreValidated ==
    [][(pc \in {"chpxpass", "papxpass"} /\ RangeBeyond(fkp')) =>
              /\ pc' = "error"
              /\ ~fkp'.overread
              /\ doc' = EmptyDoc]_vars

IsOleSignature(source) ==
    Len(source) >= 2 /\ source[1] = 208 /\ source[2] = 207

IsZipSignature(source) ==
    /\ Len(source) >= 4
    /\ source[1] = 80 /\ source[2] = 75
    /\ <<source[3], source[4]>> \in {<<3, 4>>, <<5, 6>>, <<7, 8>>}

\* C16: Extract hands the source to the OLE extractor exactly when its first
\* two bytes are D0 CF, to the docx extractor exactly when its first four
\* bytes are 'PK' and 03 04, 05 06 or 07 08, and rejects every other source,
\* the empty one and those shorter than 4 bytes too, with the
\* unsupported-format error and without a Document.
C16_DispatchBySignature ==
    pc \in {"ole", "docx", "unsupported", "ioerror", "toosmall"} =>
        /\ pc = "ole" <=> IsOleSignature(input)
        /\ pc = "docx" <=> IsZipSignature(input)
        /\ (~IsOleSignature(input) /\ ~IsZipSignature(input)) =>
               pc = "unsupported" /\ doc = EmptyDoc

\* the filter table as the specification states it
StatedFilterRune(c) ==
    CASE c \in {8194, 8195} -> 32
      [] c \in {8210, 8211, 8212} -> 45
      [] c \in {8216, 8217} -> 39
      [] c \in {8220, 8221} -> 34
      [] OTHER -> c

\* what a getter is to return for the unfiltered value t
AsStated(o, t) ==
    IF o.nil \/ o.FilterUnicode THEN [i \in 1..Len(t) |-> StatedFilterRune(t[i])]
    ELSE t

StatedHeaders ==
    IF opts.nil \/ opts.IncludeFooters THEN doc.Headers \o doc.Footers
    ELSE doc.Headers

StatedTextboxes ==
    IF opts.nil \/ (opts.IncludeBody /\ opts.IncludeHeadersAndFooters)
    THEN doc.Textboxes \o <<10>> \o doc.HeaderTextboxes
    ELSE IF opts.IncludeBody THEN doc.Textboxes
    ELSE IF opts.IncludeHeadersAndFooters THEN doc.HeaderTextboxes
    ELSE <<>>

\* C18 as stated: GetTextboxes returns Textboxes when IncludeBody is set, then
\* HeaderTextboxes when IncludeHeadersAndFooters is set, joined by one newline:
\* both flags give Textboxes, "\n", HeaderTextboxes; one flag gives that field
\* alone with no separator; nil options are as both flags set.
C18_TextboxesJoined ==
    pc = "GetTextboxes" => text = StatedTextboxes

\* C18, amended: as stated, and the joined value is passed through the
\* Unicode filter when the options are nil or FilterUnicode is true.
C18_TextboxesJoinedFiltered ==
    pc = "GetTextboxes" => text = AsStated(opts, StatedTextboxes)

C18_Witness ==
    /\ pc = "GetTextboxes"
    /\ ~opts.nil /\ opts.IncludeBody /\ opts.IncludeHeadersAndFooters
    /\ opts.FilterUnicode
    /\ doc.Textboxes = <<65>>
    /\ doc.HeaderTextboxes = <<8212>>
    /\ text = <<65, 10, 45>>

\* what the getter named by pc returns with the filter off
Unfiltered ==
    LET plain == [OptionsOrDefault(opts) EXCEPT !.FilterUnicode = FALSE]
    IN  CASE pc = "GetBody" -> doc.Body
          [] pc = "GetFootnotes" -> doc.Footnotes
          [] pc = "GetEndnotes" -> doc.Endnotes
          [] pc = "GetFooters" -> doc.Footers
          [] pc = "GetAnnotations" -> doc.Annotations
          [] pc = "GetHeaders" -> GetHeaders(doc, plain)
          [] pc = "GetTextboxes" -> GetTextboxes(doc, plain)

\* C19: with FilterUnicode true, and with nil options, every getter replaces
\* each code point of its value as the filter table says (U+2002, U+2003 by a
\* space; U+2012, U+2013, U+2014 by '-'; U+2018, U+2019 by an apostrophe;
\* U+201C, U+201D by a double quote) and leaves every other code point as it
\* is; with FilterUnicode false it returns the stored value unchanged.
C19_FilterUnicode ==
    pc # "document" =>
        /\ Len(text) = Len(Unfiltered)
        /\ \A i \in 1..Len(text) :
              text[i] = IF opts.nil \/ opts.FilterUnicode
                        THEN StatedFilterRune(Unfiltered[i])
                        ELSE Unfiltered[i]

C19_Witness ==
    /\ pc = "GetBody"
    /\ opts.nil
    /\ doc.Body = <<8211, 8208>>
    /\ text = <<45, 8208>>

\* C20: run returns the usage error exactly when the argument list is empty;
\* with at least one argument it returns nil, whatever number of paths cannot
\* be resolved, do not exist or fail extraction: such a failure is logged and
\* no more, and the other arguments are still processed.
C20_RunReturnsNilUnlessNoArgs ==
    /\ pc = "returned" =>
          cli.result = IF cli.args = <<>> THEN "usage" ELSE "nil"
    /\ pc # "crashed"

\* C21: for every grpprl and both start offsets, the SPRM iteration moves
\* its cursor forward on every step until the end of the grpprl and ends
\* without failing the extraction, whatever spra the codes carry.
C21_SprmIterationEndsCleanly ==
    [][pc = "sprms" =>
          /\ pc' \in {"sprms", "sprmsdone"}
          /\ pc' = "sprms" => sprms'.offset > sprms.offset]_vars

\* the operand length the specification states for a code's spra
StatedOperandLength(buffer, offset, spra) ==
    CASE spra = 0 -> 1
      [] spra = 1 -> 1
      [] spra = 2 -> 2
      [] spra = 3 -> 4
      [] spra = 4 -> 2
      [] spra = 5 -> 2
      [] spra = 6 -> 1 + buffer[offset + 1]
      [] spra = 7 -> 3

\* C25: processSprms calls the handler once per SPRM, in order, with the
\* operand offset right behind the 2-byte code and ispmd = code & 0x1FF, and
\* the next SPRM starts at the operand offset plus the operand length that
\* spra = code >> 13 selects.
C25_HandlerCallsAndOperandLengths ==
    [][(pc = "sprms" /\ sprms' # sprms) =>
          LET buffer == sprms.buffer
              code == buffer[sprms.offset + 1] + 256 * buffer[sprms.offset + 2]
              call == sprms'.calls[Len(sprms'.calls)]
          IN  /\ sprms'.calls = Append(sprms.calls, call)
              /\ call.sprm = code
              /\ call.offset = sprms.offset + 2
              /\ call.ispmd = code % 512
              /\ call.spra = code \div 8192
              /\ pc' = "sprms" =>
                    sprms'.offset = call.offset
                        + StatedOperandLength(buffer, call.offset, code \div 8192)]_vars

\* a length-prefixed operand followed by a second SPRM
C25_Witness ==
    /\ pc = "sprmsdone"
    /\ sprms.buffer = <<0, 192, 0, 23, 36>>
    /\ Len(sprms.calls) = 2
    /\ sprms.calls[1].spra = 6
    /\ sprms.calls[2].offset = 5
    /\ sprms.calls[2].spra = 1

\* C28: every byte the SPRM iteration reads lies inside the grpprl: the two
\* bytes of a code, the length byte of an operand with spra = 6, and the
\* operand byte the character callback reads for sprmCFRMarkDel; also for a
\* grpprl that ends right behind a 2-byte code.
C28_SprmReadsInsideGrpprl ==
    \A k \in 1..Len(sprms.calls) :
        LET call == sprms.calls[k]
        IN  /\ call.offset <= Len(sprms.buffer)
            /\ call.spra = 6 => call.offset < Len(sprms.buffer)
            /\ (sprms.handler = "chpx" /\ call.ispmd = 0) =>
                   call.offset < Len(sprms.buffer)

\* the file position of the k-th character of a piece
CharFilePos(piece, k) == piece.StartFilePos + (k - 1) * piece.Bpc

\* C22: replaceSelectedRangeByFilePos(s, e, c) replaces by c exactly the
\* characters whose file position lies in [s, e) and leaves every other
\* character of every piece as it is, on any piece table the extraction can
\* hold: also when the pieces, in CP order, are not in the order of their
\* file positions, and when s is the EndFilePos of a piece.
C22_FileRangeReplacedExactly ==
    (pc = "chpx" /\ pieces # <<>>) =>
        \A s \in FilePositions : \A e \in FilePositions : \A pad \in BOOLEAN :
            s <= e =>
                LET r == replaceSelectedRangeByFilePos(pieces, s, e, 10, pad)
                IN  /\ r.ok
                    /\ Len(r.pieces) = Len(pieces)
                    /\ \A i \in 1..Len(pieces) :
                          /\ Len(r.pieces[i].Text) = Len(pieces[i].Text)
                          /\ \A k \in 1..Len(pieces[i].Text) :
                                r.pieces[i].Text[k] =
                                    IF /\ s <= CharFilePos(pieces[i], k)
                                       /\ CharFilePos(pieces[i], k) < e
                                    THEN 10
                                    ELSE pieces[i].Text[k]


\* run j of the page (from 1) calls the mutator: its grpprl has an SPRM the
\* handler acts on
RunHits(j) ==
    /\ runs.grpprl[j].present
    /\ \E n \in DOMAIN SprmOutcomes(runs.handler, runs.grpprl[j].bytes,
                                    StartOffset(runs.handler)) :
          SprmOutcomes(runs.handler, runs.grpprl[j].bytes,
                       StartOffset(runs.handler))[n] = "hit"

\* the file position fp lies in a run that calls the mutator
InHitRun(fp) ==
    \E j \in 1..Len(runs.grpprl) :
       RunHits(j) /\ runs.rgfc[j] <= fp /\ fp < runs.rgfc[j + 1]

\* the tables that replacing each hit run on its own, from run j on, can give
RECURSIVE EachRunAlone(_, _)
EachRunAlone(ps, j) ==
    IF j > Len(runs.grpprl) THEN {ps}
    ELSE IF ~RunHits(j) THEN EachRunAlone(ps, j + 1)
    ELSE UNION {LET r == markDeletedRange(ps, runs.rgfc[j], runs.rgfc[j + 1], pad)
                IN  IF r.ok THEN EachRunAlone(r.pieces, j + 1) ELSE {}
                : pad \in BOOLEAN}

\* after the pass every piece has the characters of replacing the hit runs'
\* file ranges by the character c, and no others
PassReplacedExactly(c) ==
    /\ Len(pieces) = Len(runs.before)
    /\ \A i \in 1..Len(pieces) :
          /\ Len(pieces[i].Text) = Len(runs.before[i].Text)
          /\ \A k \in 1..Len(pieces[i].Text) :
                pieces[i].Text[k] =
                    IF InHitRun(CharFilePos(runs.before[i], k))
                    THEN c ELSE runs.before[i].Text[k]

\* C23: after the character pass a character is NUL exactly when its file
\* position lies in a CHPX run whose grpprl has an SPRM with ispmd 0 and
\* operand bit 0 set, or it was NUL before; the pieces are those of replacing
\* each such run on its own; runs with descriptor byte 0 change nothing
C23_DeletedExactlyInMarkedRuns ==
    (pc = "runsdone" /\ runs.handler = "chpx") =>
        /\ PassReplacedExactly(0)
        /\ pieces \in EachRunAlone(runs.before, 1)

\* C24: after the paragraph pass every character whose file position lies in
\* a PAPX run whose grpprl, read from 2 bytes in, has the SPRM 0x2417 is a
\* newline, and every other character is unchanged
C24_ParagraphRunsBecomeNewlines ==
    (pc = "runsdone" /\ runs.handler = "papx") => PassReplacedExactly(10)


\* the fc the loop reads for piece x (from 1) of the stored table
StoredFc(x) ==
    ReadUint32(plcPcd.table, PcdOffset((plcPcd.size - 4) \div 12, x - 1))

\* C26: a descriptor with bit 0x40000000 of fc set gives a single-byte piece
\* with Bpc 1 at (fc without the bit) / 2, any other a UCS-2 piece with Bpc 2
\* at fc; the table has (pieceTableSize - 4) / 12 pieces, and none when
\* pieceTableSize is below 4
C26_PieceEncodingAndCount ==
    /\ (pc \in {"chpx", "panic"} /\ plcPcd.size < 4) =>
           (pc = "chpx" /\ pieces = <<>>)
    /\ (pc = "chpx" /\ plcPcd.size >= 4) =>
           /\ Len(pieces) = (plcPcd.size - 4) \div 12
           /\ \A x \in 1..Len(pieces) :
                 IF (StoredFc(x) \div CompressedBit) % 2 = 1
                 THEN /\ pieces[x].Bpc = 1 /\ ~pieces[x].Unicode
                      /\ pieces[x].StartFilePos = (StoredFc(x) - CompressedBit) \div 2
                 ELSE /\ pieces[x].Bpc = 2 /\ pieces[x].Unicode
                      /\ pieces[x].StartFilePos = StoredFc(x)


\* the names of the name table, read from word w on
RECURSIVE StoredNames(_, _)
StoredNames(words, w) ==
    IF w > Len(words) THEN <<>>
    ELSE <<SubSeq(words, w + 1, w + words[w])>> \o StoredNames(words, w + 1 + words[w])

\* C27: after writeBookmarks the k-th name of the name table is stored with
\* the start CP of the k-th entry of PlcfBkf and the end CP of the k-th entry
\* of PlcfBkl (a name that occurs again later is stored with the later entry)
C27_BookmarkCpsByIndex ==
    pc = "bkmkdone" =>
        LET names == StoredNames(bkmk.sttbfBkmk, 4)
        IN  \A k \in 1..Len(names) :
               (\A l \in (k + 1)..Len(names) : names[l] # names[k]) =>
                   [name |-> names[k], Start |-> bkmk.plcfBkf[k],
                    End |-> bkmk.plcfBkl[k]] \in bkmk.bookmarks


\* C29: the WaitGroup counter is never negative: it counts the goroutines
\* that were announced by wg.Add(1) and have not run wg.Done(); run returns
\* from wg.Wait() only when every processFile goroutine it launched has
\* finished
C29_RunWaitsForEveryGoroutine ==
    /\ cli.wg >= 0
    /\ cli.wg = BagCardinality(cli.running)
                + (IF cli.adding = "none" THEN 0 ELSE 1)
    /\ (cli.result = "nil") =>
           /\ cli.running = EmptyBag
           /\ cli.finished = cli.launched

\* run returned after two goroutines that overlapped
C29_Witness ==
    /\ pc = "returned"
    /\ cli.result = "nil"
    /\ cli.launched >= 2
    /\ cli.finished = cli.launched


\* the step closes a txbxContent element
ClosesTextbox ==
    /\ docx.open # <<>>
    /\ docx.open[Len(docx.open)].tag = "txbxContent"
    /\ Len(docx'.open) < Len(docx.open)

\* field' is field with the text added at its end, behind a separator or not
AppendedTo(field, after, txt) ==
    after \in {field \o txt, field \o <<Newline>> \o txt}

\* C30: at the close tag of a txbxContent element the pieces are again those
\* at the matching open tag and the context is the one at that tag; the text
\* of the textbox goes to HeaderTextboxes when that context holds "header",
\* else to Textboxes, and nowhere when the context's top is "drawing" or the
\* text is empty
C30_TextboxRestoresPieces ==
    [][ClosesTextbox =>
          LET opened == docx.open[Len(docx.open)]
              textBox == joinRunes(docx.pieces)
              discarded == \/ textBox = <<>>
                           \/ opened.context # <<>> /\ opened.context[1] = "drawing"
              inHeader == \E i \in DOMAIN opened.context : opened.context[i] = "header"
          IN  /\ pc' = "docx"
              /\ docx'.pieces = opened.pieces
              /\ docx'.context = opened.context
              /\ IF discarded THEN doc' = doc
                 ELSE IF inHeader
                 THEN /\ AppendedTo(doc.HeaderTextboxes, doc'.HeaderTextboxes, textBox)
                      /\ doc'.Textboxes = doc.Textboxes
                 ELSE /\ AppendedTo(doc.Textboxes, doc'.Textboxes, textBox)
                      /\ doc'.HeaderTextboxes = doc.HeaderTextboxes]_vars

\* a textbox in a textbox of a header, behind text of the header: both are
\* closed, the header's text is back and both texts are in HeaderTextboxes
C30_Witness ==
    /\ pc = "docx"
    /\ docx.open = <<>>
    /\ docx.pieces = <<<<LetterX>>>>
    /\ docx.context = <<"content", "header">>
    /\ doc.HeaderTextboxes = <<LetterX, Newline, LetterX>>

=============================================================================
